---- MODULE Spec2Model ----
(***************************************************************************)
(* Raster grid engine of plans/datasets.py: the Raster base class and its  *)
(* categorical specialisation QualiRaster.  One raster object is modelled  *)
(* as a record of its attributes; every method is an operator on that      *)
(* record and every public call is one action.                             *)
(*                                                                         *)
(* Numbers: cell values, header values and nodata values are integers      *)
(* (float32 cells hold integral values); numpy.nan and Python's None are   *)
(* the two reserved codes NaN and None.  A grid is the record              *)
(*   [nrows, ncols, data, mask, ma]                                        *)
(* with data and mask flat in row-major order; ma says that the array is a *)
(* numpy.ma.MaskedArray (mask is all FALSE for a plain ndarray).  An       *)
(* optional attribute is <<>> for None and <<x>> otherwise.                *)
(***************************************************************************)
EXTENDS Integers, Sequences, FiniteSets, TLC

VARIABLES
    raster,   \* the raster object (record of its attributes)
    err,      \* exception raised by the last call ("" when it returned)
    exported, \* the file written by the last export_asc_raster, with the grid
              \* (as it was when the call was made) and header of the raster
              \* that wrote it and whether it was read back; <<>> once any
              \* other method has been called
    aoi_seq,  \* history of the current run of AOI calls: n applies with
              \* backup (at most 2 counted) followed by r releases (at most
              \* 2 counted), snap the grid before the latest of the applies
    offered,  \* the NODATA value the last call was given (in its header
              \* argument, its file or its reference raster); None when the
              \* history of the offers is not followed
    returned, \* what the last call returned, for the calls that report
              \* (get_areas, issamegrid); <<>> for None
    sample,   \* the raster handed to get_zonal_stats as raster_sample
    coll,     \* the Collection object: its members and its catalog
    last_call \* the last call made on the collection: its name and
              \* whether a member of the name it was given existed

vars == <<raster, err, exported, aoi_seq, offered, returned, sample, coll, last_call>>

\* the variables the calls on the single raster leave alone
extra == <<offered, returned, sample, coll, last_call>>

-----------------------------------------------------------------------------
\* Bounds of the model

MaxVal == 1

-----------------------------------------------------------------------------
\* Values

None == -1000
NaN == 1000
\* numpy.inf, and the largest finite float32 that numpy.nan_to_num puts in
\* its place
Inf == 2000
FloatMax == 1999

Vals == 0..MaxVal

Shapes == {<<1, 2>>, <<1, 1>>}

Classes == {"Raster_float32", "Raster_uint8", "QualiRaster"}

DtypeOf(cls) == IF cls = "Raster_float32" THEN "float32" ELSE "uint8"

IsIntKind(self) == self.dtype = "uint8"

CellVals(dtype) == IF dtype = "uint8" THEN Vals ELSE Vals \cup {NaN}

NCells(g) == g.nrows * g.ncols

Plain(nr, nc, d) ==
    [nrows |-> nr, ncols |-> nc, data |-> d,
     mask |-> [i \in 1..(nr * nc) |-> FALSE], ma |-> FALSE]

\* the cells as a reader of the grid sees them: NaN for an absent cell
Visible(g) ==
    [i \in 1..NCells(g) |-> IF g.mask[i] THEN NaN ELSE g.data[i]]

SameGrid(a, b) ==
    \/ a = <<>> /\ b = <<>>
    \/ /\ a # <<>> /\ b # <<>>
       /\ a[1].nrows = b[1].nrows /\ a[1].ncols = b[1].ncols
       /\ Visible(a[1]) = Visible(b[1])

-----------------------------------------------------------------------------
\* Raster.__init__ / QualiRaster.__init__

EmptyMeta ==
    [ncols |-> None, nrows |-> None, xllcorner |-> None,
     yllcorner |-> None, cellsize |-> None, NODATA_value |-> None]

overwrite_nodata(self) ==
    [self EXCEPT !.nodatavalue = 0, !.asc_metadata.NODATA_value = 0]

NewRaster(cls) ==
    LET base == [cls |-> cls,
                 dtype |-> DtypeOf(cls),
                 grid |-> <<>>, backup_grid |-> <<>>, isaoi |-> FALSE,
                 asc_metadata |-> EmptyMeta,
                 nodatavalue |-> None, cellsize |-> None,
                 prj |-> <<>>, table |-> <<>>]
    IN  IF cls = "QualiRaster" THEN overwrite_nodata(base) ELSE base

-----------------------------------------------------------------------------
\* NODATA / mask engine

\* variant: the new mask replaces the old one where the data is NODATA
mask_nodata_flip(self) ==
    IF self.nodatavalue = None THEN self
    ELSE LET g == self.grid[1] IN
         IF IsIntKind(self)
         THEN [self EXCEPT !.grid = <<[g EXCEPT
                  !.mask = [i \in 1..NCells(g) |->
                              g.mask[i] # (g.data[i] = self.nodatavalue)],
                  !.ma = TRUE]>>]
         ELSE [self EXCEPT !.grid = <<[g EXCEPT
                  !.data = [i \in 1..NCells(g) |->
                              IF g.data[i] = self.nodatavalue THEN NaN
                              ELSE g.data[i]]]>>]

mask_nodata(self) ==
    IF self.nodatavalue = None THEN self
    ELSE LET g == self.grid[1] IN
         IF IsIntKind(self)
         THEN [self EXCEPT !.grid = <<[g EXCEPT
                  !.mask = [i \in 1..NCells(g) |->
                              g.mask[i] \/ g.data[i] = self.nodatavalue],
                  !.ma = TRUE]>>]
         ELSE [self EXCEPT !.grid = <<[g EXCEPT
                  !.data = [i \in 1..NCells(g) |->
                              IF g.data[i] = self.nodatavalue THEN NaN
                              ELSE g.data[i]]]>>]

insert_nodata(self) ==
    IF self.nodatavalue = None THEN self
    ELSE LET g == self.grid[1] IN
         IF IsIntKind(self)
         THEN [self EXCEPT !.grid = <<[g EXCEPT
                  !.data = [i \in 1..NCells(g) |->
                              IF g.mask[i] THEN self.nodatavalue ELSE g.data[i]],
                  !.mask = [i \in 1..NCells(g) |-> FALSE],
                  !.ma = FALSE]>>]
         ELSE [self EXCEPT !.grid = <<[g EXCEPT
                  !.data = [i \in 1..NCells(g) |->
                              IF g.data[i] = NaN THEN self.nodatavalue
                              ELSE IF g.data[i] = Inf THEN FloatMax
                              ELSE g.data[i]]]>>]

\* the float64 value k + 1/2 (the mean of two integral values)
HalfBase == 3000
Half(k) == HalfBase + k
IsHalf(v) == v >= HalfBase

\* the cast of one value to uint8: a fraction is truncated and an integer
\* wraps modulo 2^8; NaN and inf are not cast by the calls modelled
to_uint8(v) ==
    IF IsHalf(v) THEN (v - HalfBase) % 256
    ELSE IF v >= 0 /\ v < NaN THEN v % 256
    ELSE v

\* grid.astype(self.dtype): a copy; mask and array class are kept
astype(g, dtype) ==
    IF dtype = "uint8"
    THEN [g EXCEPT !.data = [i \in 1..NCells(g) |-> to_uint8(g.data[i])]]
    ELSE g

set_grid(self, g) ==
    mask_nodata([self EXCEPT !.grid = <<astype(g, self.dtype)>>])

Raster_set_asc_metadata(self, metadata) ==
    LET m == [k \in DOMAIN self.asc_metadata |->
                IF k \in DOMAIN metadata THEN metadata[k]
                ELSE self.asc_metadata[k]]
    IN  [self EXCEPT !.asc_metadata = m,
                     !.nodatavalue = m.NODATA_value,
                     !.cellsize = m.cellsize]

\* variant: the categorical raster keeps the nodata value it is given
set_asc_metadata_plain(self, metadata) ==
    Raster_set_asc_metadata(self, metadata)

set_asc_metadata(self, metadata) ==
    IF self.cls = "QualiRaster"
    THEN overwrite_nodata(Raster_set_asc_metadata(self, metadata))
    ELSE Raster_set_asc_metadata(self, metadata)

-----------------------------------------------------------------------------
\* AOI apply / release and value clipping

\* numpy.where(grid_aoi == 0, nodatavalue, grid): a plain ndarray built from
\* the underlying data of the grid (numpy.where ignores the mask)
aoi_where(self, grid_aoi) ==
    LET g == self.grid[1] IN
    Plain(g.nrows, g.ncols,
          [i \in 1..NCells(g) |->
              IF grid_aoi[i] = 0 THEN self.nodatavalue ELSE g.data[i]])

\* variant: a backup that already exists is kept, so the grid before the
\* first AOI survives a second apply
apply_aoi_mask_keep_first(self, grid_aoi, inplace) ==
    IF self.nodatavalue = None \/ self.grid = <<>> THEN self
    ELSE LET grd_mask == aoi_where(self, grid_aoi)
             s1 == IF inplace \/ self.backup_grid # <<>> THEN self
                   ELSE [self EXCEPT !.backup_grid = self.grid]
         IN  [set_grid(s1, grd_mask) EXCEPT !.isaoi = TRUE]

apply_aoi_mask(self, grid_aoi, inplace) ==
    IF self.nodatavalue = None \/ self.grid = <<>> THEN self
    ELSE LET grd_mask == aoi_where(self, grid_aoi)
             s1 == IF inplace THEN self
                   ELSE [self EXCEPT !.backup_grid = self.grid]
         IN  [set_grid(s1, grd_mask) EXCEPT !.isaoi = TRUE]

\* self.set_grid(grid=self.backup_grid) raises AttributeError when the backup
\* is None (None has no astype), before anything is assigned
release_raises(self) == self.isaoi /\ self.backup_grid = <<>>

release_aoi_mask(self) ==
    IF self.isaoi
    THEN [set_grid(self, self.backup_grid[1]) EXCEPT
             !.backup_grid = <<>>, !.isaoi = FALSE]
    ELSE self

\* new_grid = self.grid is the raster's own array: both assignments write
\* into it (a boolean-indexed assignment on a MaskedArray writes the
\* underlying data and keeps the mask; NaN compares False)
clamp(v, upper, lower) ==
    IF v = NaN THEN v
    ELSE LET a == IF v < lower THEN lower ELSE v
         IN  IF a > upper THEN upper ELSE a

clamp_grid(g, upper, lower) ==
    [g EXCEPT !.data = [i \in 1..NCells(g) |-> clamp(g.data[i], upper, lower)]]

cut_edges(self, upper, lower, inplace) ==
    LET s1 == [self EXCEPT !.grid = <<clamp_grid(self.grid[1], upper, lower)>>]
    IN  IF self.grid = <<>> THEN self
        ELSE IF inplace THEN set_grid(s1, s1.grid[1])
        ELSE s1

-----------------------------------------------------------------------------
\* Resampling against a reference raster, and structure copy

\* get_grid_datapoints: twice the x and y of the centre of cell c (1-based,
\* row-major) of the grid, from the header and the shape of the grid
CellX2(self, c) ==
    LET j == (c - 1) % self.grid[1].ncols IN
    2 * self.asc_metadata.xllcorner + 2 * j * self.cellsize + self.cellsize

CellY2(self, c) ==
    LET g == self.grid[1]
        i == (c - 1) \div g.ncols
    IN  2 * self.asc_metadata.yllcorner
        + 2 * (g.nrows * self.cellsize - i * self.cellsize) - self.cellsize

\* the cells that drop_nan=True keeps (a masked cell reads as nan)
DataPoints(self) ==
    { c \in 1..NCells(self.grid[1]) : Visible(self.grid[1])[c] # NaN }

Dist2(a, ca, b, cb) ==
    (CellX2(a, ca) - CellX2(b, cb)) * (CellX2(a, ca) - CellX2(b, cb))
    + (CellY2(a, ca) - CellY2(b, cb)) * (CellY2(a, ca) - CellY2(b, cb))

\* griddata(method="nearest"): the data points nearest to cell t of the base
Nearest(self, base, t) ==
    { c \in DataPoints(self) :
        \A c2 \in DataPoints(self) :
            Dist2(self, c, base, t) <= Dist2(self, c2, base, t) }

\* the grids griddata can return, reshaped to the base grid (one grid unless
\* two data points are equally near to a cell)
grd_zi(self, base) ==
    LET b == base.grid[1] IN
    { Plain(b.nrows, b.ncols, [t \in 1..NCells(b) |-> self.grid[1].data[pick[t]]]) :
        pick \in { f \in [1..NCells(b) -> 1..NCells(self.grid[1])] :
                     \A t \in 1..NCells(b) : f[t] \in Nearest(self, base, t) } }

HasCoords(self) ==
    /\ self.cellsize # None
    /\ self.asc_metadata.xllcorner # None
    /\ self.asc_metadata.yllcorner # None

\* the exception rebase_grid raises ("" when it returns): arithmetic on the
\* None of a missing grid or header is a TypeError; scipy rejects an unknown
\* method and an empty set of data points
rebase_grid_error(self, base, method) ==
    IF self.grid = <<>> \/ base.grid = <<>> THEN "TypeError"
    ELSE IF ~HasCoords(self) \/ ~HasCoords(base) THEN "TypeError"
    ELSE IF method # "nearest" THEN "ValueError"
    ELSE IF DataPoints(self) = {} THEN "ValueError"
    ELSE ""

\* QualiRaster.rebase_grid passes method="nearest" whatever the caller says
rebase_method(self, method) ==
    IF self.cls = "QualiRaster" THEN "nearest" ELSE method

rebase_grid_inplace(self, base, zi) ==
    [set_asc_metadata(set_grid(self, zi), base.asc_metadata) EXCEPT
        !.prj = base.prj]

\* raster_ref.prj[:] raises TypeError for a reference without projection,
\* after the header was copied
copy_structure_raises(ref) == ref.prj = <<>>

copy_structure(self, ref, n_nodatavalue) ==
    LET dict_meta == IF n_nodatavalue = None THEN ref.asc_metadata
                     ELSE [ref.asc_metadata EXCEPT !.NODATA_value = n_nodatavalue]
        s1 == set_asc_metadata(self, dict_meta)
    IN  IF copy_structure_raises(ref) THEN s1 ELSE [s1 EXCEPT !.prj = ref.prj]

-----------------------------------------------------------------------------
\* Categorical raster: table and reclassification

\* the table as the sequence of its Id values; set_table sorts it by Id
set_table(self, ids) ==
    [self EXCEPT !.table = <<SortSeq(ids, LAMBDA a, b : a < b)>>]

\* variant: the new id is added without zeroing the old one
reclass_pair_add(g, old, new) ==
    [g EXCEPT !.data = [i \in 1..NCells(g) |->
        IF ~g.mask[i] /\ g.data[i] = old THEN g.data[i] + new ELSE g.data[i]]]

\* one pair of the mapping: grid_new * (grid_new != old) + new * (grid_new == old);
\* masked cells stay masked and keep their underlying data
reclass_pair(g, old, new) ==
    [g EXCEPT !.data = [i \in 1..NCells(g) |->
        IF ~g.mask[i] /\ g.data[i] = old THEN new ELSE g.data[i]]]

\* variant: only the first pair of the mapping is applied
reclass_loop_first(g, dict_ids, i) ==
    IF i > Len(dict_ids) THEN g
    ELSE reclass_pair(g, dict_ids[i][1], dict_ids[i][2])

RECURSIVE reclass_loop(_, _, _)
reclass_loop(g, dict_ids, i) ==
    IF i > Len(dict_ids) THEN g
    ELSE reclass_loop(reclass_pair(g, dict_ids[i][1], dict_ids[i][2]), dict_ids, i + 1)

reclassify(self, dict_ids, df_new_table) ==
    set_table(set_grid(self, reclass_loop(self.grid[1], dict_ids, 1)),
              df_new_table)

\* set_table on a frame without Id column: the frame is assigned to the
\* table before sort_values raises KeyError
set_table_raised(self, ids) == [self EXCEPT !.table = <<ids>>]

\* load_table: pandas.read_csv, then set_table, whose sort by Id raises
\* KeyError for a file without an Id column
load_table_error(table_file) ==
    IF "Id" \in table_file.columns THEN "" ELSE "KeyError"

load_table(self, table_file) == set_table(self, table_file.ids)

-----------------------------------------------------------------------------
\* Grid codec: the .asc text format
\*
\* A file is the sequence of its lines and a line is the sequence of tokens
\* that line.split(" ") yields (the newline that both loaders strip from the
\* token they read is left out).

Digits == <<"0", "1", "2", "3", "4", "5", "6", "7", "8", "9">>

\* str() of a Python int / of a float with an integral value
IntStr(k) == Digits[k + 1]
FloatStrs == [k \in 0..9 |-> IntStr(k) \o ".0"]
FloatStr(k) == FloatStrs[k]

\* int(token) and float(token); ValueError when CanInt / CanFloat is FALSE
CanInt(t) == \E k \in 0..9 : t = IntStr(k)
ParseInt(t) == CHOOSE k \in 0..9 : t = IntStr(k)
CanFloat(t) ==
    \/ t \in {"nan", "inf", "3.4028235e+38"}
    \/ \E k \in 0..9 : t = IntStr(k) \/ t = FloatStr(k)
ParseFloat(t) ==
    IF t = "nan" THEN NaN
    ELSE IF t = "inf" THEN Inf
    ELSE IF t = "3.4028235e+38" THEN FloatMax
    ELSE CHOOSE k \in 0..9 : t = IntStr(k) \/ t = FloatStr(k)

meta_lbls ==
    <<"ncols", "nrows", "xllcorner", "yllcorner", "cellsize", "NODATA_value">>
meta_format == <<"int", "int", "float", "float", "float", "float">>

\* "{}".format(value) of a header value: ncols and nrows are ints, the
\* others floats, except the int 0 that QualiRaster writes as its nodata
HeaderStr(self, k) ==
    LET v == self.asc_metadata[k] IN
    IF v = None THEN "None"
    ELSE IF k \in {"ncols", "nrows"} THEN IntStr(v)
    ELSE IF k = "NODATA_value" /\ self.cls = "QualiRaster" THEN IntStr(v)
    ELSE FloatStr(v)

\* "{}    {}\n".format(label, value).split(" ")
HeaderLine(self, k) == <<k, "", "", "", HeaderStr(self, k)>>

\* numpy.array(row, dtype="str") of one cell
CellStr(v, dtype) ==
    IF v = NaN THEN "nan"
    ELSE IF v = Inf THEN "inf"
    ELSE IF v = FloatMax THEN "3.4028235e+38"
    ELSE IF dtype = "uint8" THEN IntStr(v) ELSE FloatStr(v)

\* " " + " ".join(row) + "\n", split on " "
RowLine(g, i, dtype) ==
    <<"">> \o [j \in 1..g.ncols |-> CellStr(g.data[(i - 1) * g.ncols + j], dtype)]

\* the lines export_asc_raster writes, for a raster with a grid
AscLines(self) ==
    LET g == insert_nodata(self).grid[1] IN
    [i \in 1..6 |-> HeaderLine(self, meta_lbls[i])]
    \o [i \in 1..g.nrows |-> RowLine(g, i, self.dtype)]

\* float(None) raises TypeError before anything is written
export_raises(self) ==
    self.grid # <<>> /\ self.asc_metadata.NODATA_value = None

export_asc_raster(self) ==
    IF self.grid = <<>> THEN self
    ELSE mask_nodata(insert_nodata(self))

Last(seq) == seq[Len(seq)]

Tail1(line) == [j \in 1..(Len(line) - 1) |-> line[j + 1]]

ParseHeader(file) ==
    LET val(i) == IF meta_format[i] = "int" THEN ParseInt(Last(file[i]))
                  ELSE ParseFloat(Last(file[i]))
    IN  [ncols |-> val(1), nrows |-> val(2), xllcorner |-> val(3),
         yllcorner |-> val(4), cellsize |-> val(5), NODATA_value |-> val(6)]

\* lst_grid: the token rows after the sixth line
GridRows(file) == [i \in 1..(Len(file) - 6) |-> Tail1(file[i + 6])]

\* numpy.array(lst_grid, dtype=self.dtype) raises ValueError for a token the
\* dtype cannot parse and for rows of different lengths
RowsOk(rows, dtype) ==
    /\ \A i \in 1..Len(rows) : Len(rows[i]) = Len(rows[1])
    /\ \A i \in 1..Len(rows) : \A j \in 1..Len(rows[i]) :
          IF dtype = "uint8" THEN CanInt(rows[i][j]) ELSE CanFloat(rows[i][j])

ParseRows(rows, dtype) ==
    LET nr == Len(rows)
        nc == IF nr = 0 THEN 0 ELSE Len(rows[1])
    IN  Plain(nr, nc,
              [c \in 1..(nr * nc) |->
                  LET t == rows[((c - 1) \div nc) + 1][((c - 1) % nc) + 1]
                  IN  IF dtype = "uint8" THEN ParseInt(t) ELSE ParseFloat(t)])

HeaderTokenOk(file, i) ==
    IF meta_format[i] = "int" THEN CanInt(Last(file[i]))
    ELSE CanFloat(Last(file[i]))

\* the exception of the header loop ("" when it completes): the first line
\* that is missing (lst_file[i] raises IndexError) or whose last token does
\* not parse (int() / float() raise ValueError)
header_error(file) ==
    LET bad == { i \in 1..6 : i > Len(file) \/ ~HeaderTokenOk(file, i) }
        first == CHOOSE i \in bad : \A k \in bad : i <= k
    IN  IF bad = {} THEN ""
        ELSE IF first > Len(file) THEN "IndexError" ELSE "ValueError"

NoParse(e) == [error |-> e, dct_meta |-> EmptyMeta, grd_data |-> Plain(0, 0, <<>>)]

\* the first half of load_asc_raster: the file is parsed into dct_meta and
\* grd_data, or an exception leaves the raster as it was
read_asc_raster(file, dtype) ==
    IF header_error(file) # "" THEN NoParse(header_error(file))
    ELSE IF ~RowsOk(GridRows(file), dtype) THEN NoParse("ValueError")
    ELSE [error |-> "", dct_meta |-> ParseHeader(file),
          grd_data |-> ParseRows(GridRows(file), dtype)]

\* the second half: set_asc_metadata, then set_grid
load_asc_raster(self, parsed) ==
    set_grid(set_asc_metadata(self, parsed.dct_meta), parsed.grd_data)

\* load_asc_metadata keeps at most six lines and parses them the same way
read_asc_metadata(file) ==
    IF header_error(file) # "" THEN NoParse(header_error(file))
    ELSE [error |-> "", dct_meta |-> ParseHeader(file),
          grd_data |-> Plain(0, 0, <<>>)]

load_asc_metadata(self, parsed) == set_asc_metadata(self, parsed.dct_meta)

-----------------------------------------------------------------------------
\* Inputs of the calls

GridInputs(dtype) ==
    UNION { { Plain(s[1], s[2], d) : d \in [1..(s[1] * s[2]) -> CellVals(dtype)] } :
            s \in Shapes }
    \cup IF dtype = "float32" THEN { Plain(1, 1, <<Inf>>) } ELSE {}

FullMeta(s, nd) ==
    [ncols |-> s[2], nrows |-> s[1], xllcorner |-> 0, yllcorner |-> 0,
     cellsize |-> 1, NODATA_value |-> nd]

MetaInputs ==
    { FullMeta(s, nd) : s \in Shapes, nd \in Vals }
    \cup { [NODATA_value |-> nd] : nd \in Vals }

\* pseudo-boolean AOI grids of the shape of the raster's grid
AoiInputs(self) ==
    IF self.grid = <<>> THEN { <<1, 0>> }
    ELSE [1..NCells(self.grid[1]) -> {0, 1}]
         \ { [i \in 1..NCells(self.grid[1]) |-> 0] }

\* <<lower, upper>>
CutBounds == { <<1, MaxVal>>, <<0, MaxVal - 1>> }

\* .asc files offered to the loaders: the files export_asc_raster writes for
\* two sample rasters, and damaged copies of them
SampleRaster(cls, s, d) ==
    set_grid(set_asc_metadata(NewRaster(cls), FullMeta(s, 0)),
             Plain(s[1], s[2], d))

DropLine(file, k) ==
    [i \in 1..(Len(file) - 1) |-> IF i < k THEN file[i] ELSE file[i + 1]]

SetLast(file, i, tok) ==
    [file EXCEPT ![i] = [file[i] EXCEPT ![Len(file[i])] = tok]]

GoodFile(cls) == AscLines(SampleRaster(cls, <<1, 2>>, <<1, 1>>))

TwoRowFile(cls) == AscLines(SampleRaster(cls, <<2, 1>>, <<1, 1>>))

\* files with five of the six header lines: without data rows, and with data
\* rows and the NODATA_value or the ncols line missing
FiveHeaderFiles(cls) ==
    { SubSeq(GoodFile(cls), 1, 5), DropLine(TwoRowFile(cls), 6),
      DropLine(TwoRowFile(cls), 1) }

\* a file whose data row holds a token that is no number
BadRowFile(cls) == SetLast(GoodFile(cls), 7, "x")

AscInputs(cls) == { GoodFile(cls), BadRowFile(cls) } \cup FiveHeaderFiles(cls)

\* what the loaders parse out of these files
AscParsed ==
    [cls \in Classes |-> { read_asc_raster(f, DtypeOf(cls)) : f \in AscInputs(cls) }]

AscMetaParsed ==
    [cls \in Classes |-> { read_asc_metadata(f) : f \in AscInputs(cls) }]

\* the .asc files given to load: the good one and one with a bad header
LoadParsed ==
    [cls \in Classes |->
        { read_asc_raster(GoodFile(cls), DtypeOf(cls)),
          read_asc_raster(DropLine(TwoRowFile(cls), 1), DtypeOf(cls)) }]

\* reference rasters for copy_structure and rebase_grid
RefRaster(s, nd, prj) ==
    [set_grid(set_asc_metadata(NewRaster("Raster_float32"), FullMeta(s, nd)),
              Plain(s[1], s[2], [i \in 1..(s[1] * s[2]) |-> MaxVal]))
        EXCEPT !.prj = prj]

BaseInputs == { RefRaster(<<1, 1>>, 0, <<"WKT">>),
                RefRaster(<<1, 2>>, MaxVal, <<"WKT">>) }

RefInputs == BaseInputs \cup { RefRaster(<<1, 2>>, 0, <<>>) }

MethodInputs == {"linear_model", "nearest"}

\* reclassification mappings, as sequences of <<Old_Id, New_Id>>
MapInputs ==
    { <<p>> : p \in Vals \X Vals } \cup { << <<1, MaxVal>>, <<MaxVal, 0>> >> }

TableInputs == { <<MaxVal, 1>>, <<1>> }

\* category table files: a good one and one without the Id column
TableFiles ==
    { [columns |-> {"Id", "Name", "Alias"}, ids |-> <<MaxVal, 1>>],
      [columns |-> {"Name", "Alias"}, ids |-> <<>>] }

AoiStart == [n |-> 0, r |-> 0, snap |-> <<>>]

-----------------------------------------------------------------------------
\* Actions: one per public call.  A call that raises leaves in err the
\* exception and in raster what the call had assigned before it raised.

NoCall == [op |-> "", had |-> FALSE]

InitExtra ==
    /\ offered = None
    /\ returned = <<>>
    /\ sample = <<>>
    /\ coll = <<>>
    /\ last_call = NoCall

Init ==
    /\ raster \in { NewRaster(c) : c \in Classes }
    /\ err = ""
    /\ exported = <<>>
    /\ aoi_seq = AoiStart
    /\ InitExtra

\* g2 = Raster(dtype=...) / QualiRaster(): the calls that follow are made
\* on a new object of the same class
Construct ==
    /\ raster' = NewRaster(raster.cls)
    /\ err' = ""
    /\ aoi_seq' = AoiStart
    /\ exported' = IF exported # <<>> /\ ~exported[1].loaded THEN exported
                   ELSE <<>>
    /\ UNCHANGED extra

SetGridCall(g) ==
    /\ raster' = set_grid(raster, g)
    /\ err' = ""
    /\ exported' = <<>>
    /\ aoi_seq' = AoiStart

SetGrid ==
    /\ \E g \in GridInputs(raster.dtype) : SetGridCall(g)
    /\ UNCHANGED extra

SetAscMetadataCall(m) ==
    /\ raster' = set_asc_metadata(raster, m)
    /\ err' = ""
    /\ exported' = <<>>
    /\ aoi_seq' = AoiStart

SetAscMetadata ==
    /\ \E m \in MetaInputs : SetAscMetadataCall(m)
    /\ UNCHANGED extra

CopyStructureCall(ref, n_nodatavalue) ==
    /\ raster' = copy_structure(raster, ref, n_nodatavalue)
    /\ err' = IF copy_structure_raises(ref) THEN "TypeError" ELSE ""
    /\ exported' = <<>>
    /\ aoi_seq' = AoiStart

CopyStructure ==
    /\ \E ref \in RefInputs, n_nodatavalue \in {None, 1} :
           CopyStructureCall(ref, n_nodatavalue)
    /\ UNCHANGED extra

\* the call takes effect when the raster has a nodata value and a grid
AoiApplies(self) == self.nodatavalue # None /\ self.grid # <<>>

ApplyAoiMaskCall(grid_aoi, inplace) ==
    /\ raster' = apply_aoi_mask(raster, grid_aoi, inplace)
    /\ err' = ""
    /\ exported' = <<>>
    /\ aoi_seq' =
         IF inplace \/ ~AoiApplies(raster) THEN AoiStart
         ELSE [n |-> IF aoi_seq.r = 0 /\ aoi_seq.n >= 1 THEN 2 ELSE 1,
               r |-> 0, snap |-> raster.grid]

ApplyAoiMask ==
    /\ \E grid_aoi \in AoiInputs(raster), inplace \in BOOLEAN :
           ApplyAoiMaskCall(grid_aoi, inplace)
    /\ UNCHANGED extra

ReleaseAoiMask ==
    /\ raster' = IF release_raises(raster) THEN raster
                 ELSE release_aoi_mask(raster)
    /\ err' = IF release_raises(raster) THEN "AttributeError" ELSE ""
    /\ exported' = <<>>
    /\ aoi_seq' = IF aoi_seq.n = 0 THEN AoiStart
                  ELSE [aoi_seq EXCEPT !.r = IF aoi_seq.r = 0 THEN 1 ELSE 2]
    /\ UNCHANGED extra

CutEdgesCall(upper, lower, inplace) ==
    /\ raster' = cut_edges(raster, upper, lower, inplace)
    /\ err' = ""
    /\ exported' = <<>>
    /\ aoi_seq' = AoiStart

CutEdges ==
    /\ \E b \in CutBounds, inplace \in BOOLEAN : CutEdgesCall(b[2], b[1], inplace)
    /\ UNCHANGED extra

RebaseGridCall(base, inplace, method) ==
    LET e == rebase_grid_error(raster, base, rebase_method(raster, method)) IN
    /\ err' = e
    /\ IF e # "" \/ ~inplace THEN raster' = raster
       ELSE \E zi \in grd_zi(raster, base) :
               raster' = rebase_grid_inplace(raster, base, zi)
    /\ exported' = <<>>
    /\ aoi_seq' = AoiStart

RebaseGrid ==
    /\ \E base \in BaseInputs, inplace \in BOOLEAN, method \in MethodInputs :
           RebaseGridCall(base, inplace, method)
    /\ UNCHANGED extra

ExportAscRaster ==
    /\ raster' = IF export_raises(raster) THEN raster
                 ELSE export_asc_raster(raster)
    /\ err' = IF export_raises(raster) THEN "TypeError" ELSE ""
    /\ exported' =
         IF export_raises(raster) \/ raster.grid = <<>> THEN <<>>
         ELSE <<[file |-> AscLines(raster),
                 grid |-> raster.grid,
                 asc_metadata |-> raster.asc_metadata,
                 loaded |-> FALSE]>>
    /\ aoi_seq' = AoiStart
    /\ UNCHANGED extra

LoadAscRasterCall(parsed) ==
    /\ raster' = IF parsed.error # "" THEN raster
                 ELSE load_asc_raster(raster, parsed)
    /\ err' = parsed.error
    /\ exported' = <<>>
    /\ aoi_seq' = AoiStart

LoadAscRaster ==
    /\ \E parsed \in AscParsed[raster.cls] : LoadAscRasterCall(parsed)
    /\ UNCHANGED extra

\* load_asc_raster of the file that export_asc_raster has just written
LoadExported ==
    /\ exported # <<>> /\ ~exported[1].loaded
    /\ LET parsed == read_asc_raster(exported[1].file, raster.dtype) IN
        /\ raster' = IF parsed.error # "" THEN raster
                     ELSE load_asc_raster(raster, parsed)
        /\ err' = parsed.error
    /\ exported' = <<[exported[1] EXCEPT !.loaded = TRUE]>>
    /\ aoi_seq' = AoiStart
    /\ UNCHANGED extra

LoadAscMetadataCall(parsed) ==
    /\ raster' = IF parsed.error # "" THEN raster
                 ELSE load_asc_metadata(raster, parsed)
    /\ err' = parsed.error
    /\ exported' = <<>>
    /\ aoi_seq' = AoiStart

LoadAscMetadata ==
    /\ \E parsed \in AscMetaParsed[raster.cls] : LoadAscMetadataCall(parsed)
    /\ UNCHANGED extra

\* Raster.load(asc_file, prj_file) and QualiRaster.load(asc_file, prj_file,
\* table_file), with an existing .prj file: load_asc_raster, load_prj_file
\* and, for a QualiRaster, load_table, each after the other has returned
LoadCall(parsed, table_file) ==
    LET s1 == [load_asc_raster(raster, parsed) EXCEPT !.prj = <<"WKT">>]
        e2 == IF raster.cls = "QualiRaster" THEN load_table_error(table_file)
              ELSE ""
    IN  /\ raster' = IF parsed.error # "" THEN raster
                     ELSE IF raster.cls # "QualiRaster" THEN s1
                     ELSE IF e2 # "" THEN set_table_raised(s1, table_file.ids)
                     ELSE load_table(s1, table_file)
        /\ err' = IF parsed.error # "" THEN parsed.error ELSE e2
        /\ exported' = <<>>
        /\ aoi_seq' = AoiStart

Load ==
    /\ \E parsed \in LoadParsed[raster.cls],
          table_file \in IF raster.cls = "QualiRaster" THEN TableFiles
                         ELSE { CHOOSE t \in TableFiles : TRUE } :
           LoadCall(parsed, table_file)
    /\ UNCHANGED extra

\* QualiRaster only
ReclassifyCall(dict_ids, df_new_table) ==
    /\ raster.cls = "QualiRaster"
    /\ raster' = IF raster.grid = <<>> THEN raster
                 ELSE reclassify(raster, dict_ids, df_new_table)
    /\ err' = IF raster.grid = <<>> THEN "AttributeError" ELSE ""
    /\ exported' = <<>>
    /\ aoi_seq' = AoiStart

Reclassify ==
    /\ \E dict_ids \in MapInputs : ReclassifyCall(dict_ids, <<MaxVal, 1>>)
    /\ UNCHANGED extra

SetTable ==
    /\ raster.cls = "QualiRaster"
    /\ \E dataframe \in TableInputs :
        /\ raster' = set_table(raster, dataframe)
        /\ err' = ""
        /\ exported' = <<>>
        /\ aoi_seq' = AoiStart
    /\ UNCHANGED extra

Next ==
    \/ Construct
    \/ SetGrid
    \/ SetAscMetadata
    \/ CopyStructure
    \/ ApplyAoiMask
    \/ ReleaseAoiMask
    \/ CutEdges
    \/ RebaseGrid
    \/ ExportAscRaster
    \/ LoadAscRaster
    \/ LoadExported
    \/ LoadAscMetadata
    \/ Load
    \/ Reclassify
    \/ SetTable

Spec == Init /\ [][Next]_vars

-----------------------------------------------------------------------------
\* Properties

\* the grid has the shape the header declares
ShapeOk(self) ==
    /\ self.grid # <<>>
    /\ self.grid[1].nrows = self.asc_metadata.nrows
    /\ self.grid[1].ncols = self.asc_metadata.ncols

\* no cell that a reader sees holds the nodata value
NodataAbsent(self) ==
    self.grid # <<>> /\ self.nodatavalue # None =>
        \A i \in 1..NCells(self.grid[1]) :
            Visible(self.grid[1])[i] # self.nodatavalue

HasAbsent(grid) == grid # <<>> /\ \E i \in 1..NCells(grid[1]) : Visible(grid[1])[i] = NaN

HasValue(grid) == grid # <<>> /\ \E i \in 1..NCells(grid[1]) : Visible(grid[1])[i] # NaN

\* C1: AOI invertibility.  When release_aoi_mask() directly follows an
\* apply_aoi_mask(mask) with the default inplace=False on a raster that has a
\* grid and a nodata value, the grid is cell for cell (values and absent
\* positions) the grid before the apply, backup_grid is None and isaoi False.
C1_AoiInvertible ==
    aoi_seq.n >= 1 /\ aoi_seq.r = 1 =>
        /\ err = ""
        /\ SameGrid(raster.grid, aoi_seq.snap)
        /\ raster.backup_grid = <<>>
        /\ ~raster.isaoi

\* C2: release_aoi_mask() on a raster without backup (no AOI ever applied, or
\* applied with inplace=True) raises no error and leaves the grid as it was.
C2_ReleaseWithoutBackup ==
    [][ReleaseAoiMask /\ raster.backup_grid = <<>> =>
          err' = "" /\ raster'.grid = raster.grid]_vars

\* C3: the AOI backup is a stack of depth one.  After two apply_aoi_mask
\* calls with backup and no release in between, backup_grid is the grid as it
\* was after the first of them; one release_aoi_mask() restores that grid and
\* clears backup_grid and isaoi; a second release changes nothing; no call
\* raises.
C3_BackupDepthOne ==
    /\ aoi_seq.n = 2 /\ aoi_seq.r = 0 =>
          err = "" /\ raster.backup_grid = aoi_seq.snap /\ raster.isaoi
    /\ aoi_seq.n = 2 /\ aoi_seq.r >= 1 =>
          /\ err = ""
          /\ SameGrid(raster.grid, aoi_seq.snap)
          /\ raster.backup_grid = <<>>
          /\ ~raster.isaoi

\* two applies with backup, then two releases, and the first apply had made a
\* cell absent
C3_Witness ==
    aoi_seq.n = 2 /\ aoi_seq.r = 2 /\ HasAbsent(aoi_seq.snap) /\ HasValue(aoi_seq.snap)

\* C4: NODATA/mask consistency.  After any sequence of setter calls no
\* non-absent cell of the grid equals the raster's current nodata value.
C4_NodataConsistent == NodataAbsent(raster)

RebaseInplace ==
    \E base \in BaseInputs, method \in MethodInputs : RebaseGridCall(base, TRUE, method)

\* C5: header/array shape invariant.  From a raster whose grid has the shape
\* of its header, each of apply_aoi_mask (same-shape mask), release_aoi_mask,
\* cut_edges, reclassify and rebase_grid(inplace=True) leaves the grid with
\* the shape of the header, also between an apply and its release.
C5_ShapeInvariant ==
    [][(ApplyAoiMask \/ ReleaseAoiMask \/ CutEdges \/ Reclassify \/ RebaseInplace)
         /\ ShapeOk(raster) => ShapeOk(raster')]_vars

\* C6: file round trip.  After export_asc_raster of a raster whose grid has
\* the shape of its header and whose nodata value is set, load_asc_raster of
\* the written file into a raster of the same dtype raises nothing and yields
\* the six header values and, cell for cell with the absent cells at the
\* same positions, the grid that was exported (the grid of the writing raster
\* when export_asc_raster was called).
C6_RoundTrip ==
    /\ exported # <<>>
    /\ exported[1].loaded
    /\ exported[1].grid[1].nrows = exported[1].asc_metadata.nrows
    /\ exported[1].grid[1].ncols = exported[1].asc_metadata.ncols
    => /\ err = ""
       /\ raster.asc_metadata = exported[1].asc_metadata
       /\ SameGrid(raster.grid, exported[1].grid)

\* C7: export_asc_raster is neutral for the raster in memory.  After the call
\* the grid is cell for cell, absent positions included, the grid before the
\* call, and header, backup_grid and isaoi are unchanged.
C7_ExportNeutral ==
    [][ExportAscRaster /\ err' = "" =>
          /\ SameGrid(raster'.grid, raster.grid)
          /\ raster'.asc_metadata = raster.asc_metadata
          /\ raster'.nodatavalue = raster.nodatavalue
          /\ raster'.backup_grid = raster.backup_grid
          /\ raster'.isaoi = raster.isaoi]_vars

FiveHeaderRasterParsed ==
    [cls \in Classes |->
        { read_asc_raster(f, DtypeOf(cls)) : f \in FiveHeaderFiles(cls) }]

FiveHeaderMetaParsed ==
    [cls \in Classes |-> { read_asc_metadata(f) : f \in FiveHeaderFiles(cls) }]

\* C8: header rejection.  load_asc_raster and load_asc_metadata of a file that
\* has only five of the six header lines, with or without data rows, raise,
\* and no grid or header is set on the raster.
C8_FiveHeaderRejected ==
    [][(\/ \E parsed \in FiveHeaderRasterParsed[raster.cls] : LoadAscRasterCall(parsed)
        \/ \E parsed \in FiveHeaderMetaParsed[raster.cls] : LoadAscMetadataCall(parsed))
       => /\ err' # ""
          /\ raster'.grid = raster.grid
          /\ raster'.asc_metadata = raster.asc_metadata]_vars

\* C9: loading is all or nothing.  When load_asc_raster or load (for a
\* QualiRaster: with its table file) raises, grid, header and table are what
\* they were before the call.
C9_LoadAllOrNothing ==
    [][(LoadAscRaster \/ Load) /\ err' # "" =>
          /\ raster'.grid = raster.grid
          /\ raster'.asc_metadata = raster.asc_metadata
          /\ raster'.table = raster.table]_vars

\* C10: cut_edges(upper, lower, inplace=False) returns a grid (new_grid, the
\* array self.grid after the call) whose non-absent values lie in
\* [lower, upper], and leaves the raster's own grid unchanged.
C10_CutEdgesCopy ==
    [][\A b \in CutBounds :
          CutEdgesCall(b[2], b[1], FALSE) /\ raster.grid # <<>> =>
              /\ \A i \in 1..NCells(raster'.grid[1]) :
                    LET v == Visible(raster'.grid[1])[i] IN
                    v # NaN => b[1] <= v /\ v <= b[2]
              /\ SameGrid(raster'.grid, raster.grid)]_vars

-----------------------------------------------------------------------------
\* Categorical raster on its own: reclassify, the table and the area report
\* of one QualiRaster, over grids with more categories than Vals holds

MaxId == 3

OldIds == 0..MaxId

NewIds == {0, 1, 10, 20}

\* the grid of the reclassification example of the specification
ExampleGrid == Plain(3, 3, <<1, 1, 2, 2, 3, 3, 1, 2, 3>>)

\* a QualiRaster with header, projection and grid, as set_asc_metadata and
\* set_grid leave it
QualiSample(g) ==
    [set_grid(set_asc_metadata(NewRaster("QualiRaster"),
                               FullMeta(<<g.nrows, g.ncols>>, 0)), g)
        EXCEPT !.prj = <<"WKT">>]

QualiGrids ==
    { Plain(1, 3, d) : d \in [1..3 -> OldIds] } \cup { ExampleGrid }

\* dict_ids as a sequence of <<Old_Id, New_Id>>: one pair or two
ReclassPairs == OldIds \X NewIds

ReclassMaps ==
    { <<p>> : p \in ReclassPairs } \cup { <<p, q>> : p, q \in ReclassPairs }

QualiTables == { <<3, 20, 10>> }

InitQuali ==
    /\ raster \in { QualiSample(g) : g \in QualiGrids }
    /\ err = ""
    /\ exported = <<>>
    /\ aoi_seq = AoiStart
    /\ InitExtra

ReclassifyQuali ==
    /\ \E dict_ids \in ReclassMaps, df_new_table \in QualiTables :
           ReclassifyCall(dict_ids, df_new_table)
    /\ UNCHANGED extra

NextQuali ==
    \/ ReclassifyQuali

SpecQuali == InitQuali /\ [][NextQuali]_vars

Reverse(seq) == [i \in 1..Len(seq) |-> seq[Len(seq) + 1 - i]]

\* the Old_Id values are pairwise distinct and no New_Id is an Old_Id
MapDisjoint(dict_ids) ==
    /\ \A i, j \in 1..Len(dict_ids) : i # j => dict_ids[i][1] # dict_ids[j][1]
    /\ \A i, j \in 1..Len(dict_ids) : dict_ids[i][2] # dict_ids[j][1]

\* what a reader sees in cell i after a simultaneous replacement of every
\* Old_Id by its New_Id (the value 0 is nodata, an absent cell)
Replaced(g, dict_ids, i) ==
    LET v == Visible(g)[i]
        hit == { k \in 1..Len(dict_ids) : dict_ids[k][1] = v }
        w == IF hit = {} THEN v ELSE dict_ids[CHOOSE k \in hit : TRUE][2]
    IN  IF w = 0 THEN NaN ELSE w

\* C11: reclassification result.  For a mapping whose Old_Id values are
\* pairwise distinct and none of whose New_Id values is an Old_Id, every cell
\* holding an Old_Id ends with the paired New_Id, every other cell (absent
\* cells included) is unchanged, and the pairs taken in the other order give
\* the same grid.
C11_ReclassResult ==
    raster.grid # <<>> =>
        \A dict_ids \in ReclassMaps, t \in QualiTables :
            MapDisjoint(dict_ids) =>
                LET g == reclassify(raster, dict_ids, t).grid[1] IN
                /\ g.nrows = raster.grid[1].nrows /\ g.ncols = raster.grid[1].ncols
                /\ \A i \in 1..NCells(g) :
                      Visible(g)[i] = Replaced(raster.grid[1], dict_ids, i)
                /\ Visible(reclassify(raster, Reverse(dict_ids), t).grid[1]) = Visible(g)

\* the example of the specification: {1 -> 10, 2 -> 20} has been applied to
\* the example grid
C11_Witness ==
    /\ raster.grid # <<>>
    /\ Visible(raster.grid[1]) = <<10, 10, 20, 20, 3, 3, 10, 20, 3>>

\* number of cells in which a reader sees the value v
CellCount(g, v) == Cardinality({ i \in 1..NCells(g) : Visible(g)[i] = v })

NonAbsent(g) == Cardinality({ i \in 1..NCells(g) : Visible(g)[i] # NaN })

\* number of cells holding an Old_Id that dict_ids maps to v, plus the cells
\* holding v when v is not itself an Old_Id
MappedTo(g, dict_ids, v) ==
    Cardinality({ i \in 1..NCells(g) :
        /\ Visible(g)[i] # NaN
        /\ \/ \E k \in 1..Len(dict_ids) :
                 dict_ids[k][1] = Visible(g)[i] /\ dict_ids[k][2] = v
           \/ /\ Visible(g)[i] = v
              /\ \A k \in 1..Len(dict_ids) : dict_ids[k][1] # v })

TotalsKept(self, dict_ids, t) ==
    LET g == reclassify(self, dict_ids, t).grid[1] IN
    /\ \A k \in 1..Len(dict_ids) :
          CellCount(g, dict_ids[k][2]) = MappedTo(self.grid[1], dict_ids, dict_ids[k][2])
    /\ NonAbsent(g) = NonAbsent(self.grid[1])

\* C12 as stated: for any mapping, the number of cells holding a new id
\* after reclassify is the sum of the numbers of cells that held the old ids
\* mapped to it, and no cell is created or lost.
C12_TotalsAnyMapping ==
    raster.grid # <<>> =>
        \A dict_ids \in ReclassMaps, t \in QualiTables :
            TotalsKept(raster, dict_ids, t)

\* C12 amended: the same, for mappings whose Old_Id values are pairwise
\* distinct, none of whose New_Id values is an Old_Id and none of whose
\* New_Id values is the nodata value 0.
C12_ReclassTotals ==
    raster.grid # <<>> =>
        \A dict_ids \in ReclassMaps, t \in QualiTables :
            (MapDisjoint(dict_ids) /\ \A k \in 1..Len(dict_ids) : dict_ids[k][2] # 0)
                => TotalsKept(raster, dict_ids, t)

\* two old ids of the example grid have been merged into the new id 10
C12_Witness ==
    /\ raster.grid # <<>>
    /\ Visible(raster.grid[1]) = <<10, 10, 10, 10, 3, 3, 10, 10, 3>>

\* what a reader sees in a cell that was given the id v (0 is nodata)
SeenAs(v) == IF v = 0 THEN NaN ELSE v

\* C25: reclassification with overlapping old ids is last-write-wins per
\* cell: when two pairs of the mapping name the same Old_Id with different
\* New_Ids, every cell that held that Old_Id ends with the New_Id of the
\* later pair.
C25_LastWriteWins ==
    raster.grid # <<>> =>
        \A dict_ids \in ReclassMaps, t \in QualiTables :
            (/\ Len(dict_ids) = 2
             /\ dict_ids[1][1] = dict_ids[2][1]
             /\ dict_ids[1][2] # dict_ids[2][2]) =>
                LET g == reclassify(raster, dict_ids, t).grid[1] IN
                \A i \in 1..NCells(g) :
                    Visible(raster.grid[1])[i] = dict_ids[1][1]
                        => Visible(g)[i] = SeenAs(dict_ids[2][2])

-----------------------------------------------------------------------------
\* Nodata value of a categorical raster: one QualiRaster and the calls that
\* hand it a header, with every NODATA value of Vals on offer

\* a uint8 raster whose header declares nd, and the file it exports
NodataRaster(nd) ==
    set_grid(set_asc_metadata(NewRaster("Raster_uint8"), FullMeta(<<1, 2>>, nd)),
             Plain(1, 2, <<1, 0>>))

NodataFile(nd) == AscLines(NodataRaster(nd))

NodataRefs == { RefRaster(s, nd, <<"WKT">>) : s \in Shapes, nd \in Vals }

InitNodata ==
    /\ raster = NewRaster("QualiRaster")
    /\ err = ""
    /\ exported = <<>>
    /\ aoi_seq = AoiStart
    /\ InitExtra

NodataSetGrid ==
    /\ \E g \in GridInputs(raster.dtype) : SetGridCall(g)
    /\ UNCHANGED <<returned, sample, coll, last_call>>
    /\ offered' = None

NodataSetAscMetadata ==
    \E m \in MetaInputs :
        /\ SetAscMetadataCall(m)
        /\ UNCHANGED <<returned, sample, coll, last_call>>
        /\ offered' = m.NODATA_value

NodataCopyStructure ==
    \E ref \in NodataRefs, n_nodatavalue \in {None} \cup Vals :
        /\ CopyStructureCall(ref, n_nodatavalue)
        /\ UNCHANGED <<returned, sample, coll, last_call>>
        /\ offered' = IF n_nodatavalue = None
                      THEN ref.asc_metadata.NODATA_value ELSE n_nodatavalue

NodataLoadAscRaster ==
    \E nd \in Vals :
        /\ LoadAscRasterCall(read_asc_raster(NodataFile(nd), raster.dtype))
        /\ UNCHANGED <<returned, sample, coll, last_call>>
        /\ offered' = nd

NodataLoadAscMetadata ==
    \E nd \in Vals :
        /\ LoadAscMetadataCall(read_asc_metadata(NodataFile(nd)))
        /\ UNCHANGED <<returned, sample, coll, last_call>>
        /\ offered' = nd

\* rebase_grid(base_raster, inplace=True)
NodataRebaseGrid ==
    \E base \in NodataRefs :
        /\ RebaseGridCall(base, TRUE, "nearest")
        /\ UNCHANGED <<returned, sample, coll, last_call>>
        /\ offered' = base.asc_metadata.NODATA_value

NextNodata ==
    \/ NodataSetGrid
    \/ NodataSetAscMetadata
    \/ NodataCopyStructure
    \/ NodataLoadAscRaster
    \/ NodataLoadAscMetadata
    \/ NodataRebaseGrid

SpecNodata == InitNodata /\ [][NextNodata]_vars

\* C13: a QualiRaster's nodatavalue and its header's NODATA_value are 0
\* after every sequence of set_asc_metadata, copy_structure, load_asc_raster,
\* load_asc_metadata and rebase_grid(inplace=True), whatever NODATA value
\* the header, the file or the reference raster carries
C13_QualiNodataZero ==
    /\ raster.cls = "QualiRaster"
    /\ raster.nodatavalue = 0
    /\ raster.asc_metadata.NODATA_value = 0

\* a call that offered a NODATA value other than 0 has returned, and the
\* raster has a grid and a full header
C13_Witness ==
    /\ offered \notin {None, 0}
    /\ err = ""
    /\ raster.grid # <<>>
    /\ raster.asc_metadata.ncols # None

-----------------------------------------------------------------------------
\* Category table of a categorical raster: set_table, clear_table and the
\* area report of one QualiRaster

\* the ids numpy.unique(self.grid) hands to isin.  For a masked grid unique
\* keeps the values of the visible cells and one masked element, and isin
\* reads the value under it; which of the masked cells it is depends on the
\* sort, so every one of them is an outcome
np_unique(g) ==
    LET seen == { g.data[i] : i \in { j \in 1..NCells(g) : ~g.mask[j] } }
        hidden == { g.data[i] : i \in { j \in 1..NCells(g) : g.mask[j] } }
    IN  IF hidden = {} THEN { seen } ELSE { seen \cup {h} : h \in hidden }

\* self.table[...] on a raster without table raises TypeError
clear_table_raises(self) == self.grid # <<>> /\ self.table = <<>>

clear_table(self, lst_ids) ==
    IF self.grid = <<>> THEN self
    ELSE set_table(self, SelectSeq(self.table[1], LAMBDA id : id \in lst_ids))

\* tables handed to set_table, as the sequence of the Id column: the ids of
\* the example, a table that lacks an id of the grid, one with a row for the
\* nodata id and one with two rows for an id
TableRows ==
    { <<3, 20, 10>>, <<2, 1>>, <<MaxId, 2, 1>>, <<1, 0>>, <<1, 2, 1>> }

\* numpy.sum(1 * (self.grid == _n_id)): the visible cells that hold the id;
\* the sum of a grid without visible cell is numpy.ma.masked
cell_count(g, n_id) ==
    IF \A i \in 1..NCells(g) : g.mask[i] THEN NaN
    ELSE Cardinality({ i \in 1..NCells(g) : ~g.mask[i] /\ g.data[i] = n_id })

RECURSIVE SumSeq(_)
SumSeq(q) == IF q = <<>> THEN 0 ELSE q[1] + SumSeq(Tail(q))

\* round(2) of 100 * n / d, in hundredths of a percent (half to even)
percent_round2(n, d) ==
    LET q == (10000 * n) \div d
        r == (10000 * n) % d
    IN  IF 2 * r < d THEN q
        ELSE IF 2 * r > d THEN q + 1
        ELSE IF q % 2 = 0 THEN q ELSE q + 1

get_areas_none(self) ==
    self.table = <<>> \/ self.grid = <<>> \/ self.prj = <<>>

\* variant: the shares are taken over the non-absent cells of the grid
get_areas_over_grid(self) ==
    LET t == self.table[1]
        g == self.grid[1]
        total == Cardinality({ i \in 1..NCells(g) : ~g.mask[i] })
    IN  [k \in 1..Len(t) |->
            LET c == cell_count(g, t[k]) IN
            [Id |-> t[k], Cell_count |-> c,
             Area_f |-> IF c = NaN \/ total = 0 THEN <<NaN, 1>> ELSE <<c, total>>,
             Area_pct |-> IF c = NaN \/ total = 0 THEN NaN
                          ELSE percent_round2(c, total)]]

\* the returned frame, one record per table row: Id, Cell_count, Area_f as
\* the fraction <<numerator, denominator>> and Area_% in hundredths.  The
\* columns Area_m2, Area_ha and Area_km2 are Cell_count times a constant
\* and are left out.  The shares divide by Cell_count.sum(), the sum over
\* the rows of the table; 0 / 0 is nan
get_areas(self) ==
    LET t == self.table[1]
        g == self.grid[1]
        counts == [k \in 1..Len(t) |-> cell_count(g, t[k])]
        total == IF \E k \in 1..Len(t) : counts[k] = NaN THEN 0
                 ELSE SumSeq(counts)
    IN  [k \in 1..Len(t) |->
            LET c == counts[k] IN
            [Id |-> t[k], Cell_count |-> c,
             Area_f |-> IF c = NaN \/ total = 0 THEN <<NaN, 1>> ELSE <<c, total>>,
             Area_pct |-> IF c = NaN \/ total = 0 THEN NaN
                          ELSE percent_round2(c, total)]]

InitTable ==
    /\ raster \in { QualiSample(g) : g \in QualiGrids }
    /\ err = ""
    /\ exported = <<>>
    /\ aoi_seq = AoiStart
    /\ InitExtra

TableSetTable ==
    \E dataframe \in TableRows :
        /\ raster' = set_table(raster, dataframe)
        /\ err' = ""
        /\ returned' = <<>>
        /\ UNCHANGED <<exported, aoi_seq, offered, sample, coll, last_call>>

ClearTable ==
    /\ IF clear_table_raises(raster) THEN raster' = raster
       ELSE \E lst_ids \in np_unique(raster.grid[1]) :
               raster' = clear_table(raster, lst_ids)
    /\ err' = IF clear_table_raises(raster) THEN "TypeError" ELSE ""
    /\ returned' = <<>>
    /\ UNCHANGED <<exported, aoi_seq, offered, sample, coll, last_call>>

\* get_areas(), with merge left at False
GetAreas ==
    /\ returned' = IF get_areas_none(raster) THEN <<>>
                   ELSE <<get_areas(raster)>>
    /\ err' = ""
    /\ UNCHANGED <<raster, exported, aoi_seq, offered, sample, coll, last_call>>

NextTable ==
    \/ TableSetTable
    \/ ClearTable
    \/ GetAreas

SpecTable == InitTable /\ [][NextTable]_vars

\* the ids of the non-absent cells
VisibleIds(g) == { g.data[i] : i \in { j \in 1..NCells(g) : ~g.mask[j] } }

RowsOf(t, id) == Cardinality({ k \in 1..Len(t) : t[k] = id })

IsSorted(t) == \A k \in 1..(Len(t) - 1) : t[k] <= t[k + 1]

\* C14: set_table keeps every row it is given, sorted by Id; clear_table
\* leaves exactly the rows of the previous table whose Id is in a non-absent
\* cell, and then every id of a non-absent cell has exactly one row
C14_TableVsGrid ==
    /\ \A dataframe \in TableRows :
         LET t == set_table(raster, dataframe).table[1] IN
         /\ IsSorted(t)
         /\ Len(t) = Len(dataframe)
         /\ \A k \in 1..Len(dataframe) :
                RowsOf(t, dataframe[k]) = RowsOf(dataframe, dataframe[k])
    /\ raster.table # <<>> =>
         \A lst_ids \in np_unique(raster.grid[1]) :
             LET t == clear_table(raster, lst_ids).table[1] IN
             /\ t = SelectSeq(raster.table[1],
                              LAMBDA id : id \in VisibleIds(raster.grid[1]))
             /\ \A id \in VisibleIds(raster.grid[1]) : RowsOf(t, id) = 1

\* a returned area report and the raster it was computed for (get_areas
\* leaves the raster as it is)
Reported == returned # <<>> /\ ~get_areas_none(raster)

\* C15: get_areas reports for each table category the number of grid cells
\* holding its id, and Area_f and Area_% (rounded to 2 decimals) are that
\* count over the number of non-absent cells of the grid
C15_SharesOverGrid ==
    Reported =>
        LET g == raster.grid[1]
            df == returned[1]
        IN  \A k \in 1..Len(df) :
              /\ df[k].Cell_count = CellCount(g, df[k].Id)
              /\ NonAbsent(g) > 0 =>
                   /\ df[k].Area_f[1] * NonAbsent(g)
                        = df[k].Cell_count * df[k].Area_f[2]
                   /\ df[k].Area_pct
                        = percent_round2(df[k].Cell_count, NonAbsent(g))

RECURSIVE SumPct(_)
SumPct(df) == IF df = <<>> THEN 0 ELSE df[1].Area_pct + SumPct(Tail(df))

RECURSIVE SumNum(_)
SumNum(df) == IF df = <<>> THEN 0 ELSE df[1].Area_f[1] + SumNum(Tail(df))

SomeCount(df) ==
    \E k \in 1..Len(df) : df[k].Cell_count # NaN /\ df[k].Cell_count > 0

\* C16: when get_areas returns a table in which some category has a nonzero
\* cell count, the Area_% values sum to 100 within half a hundredth per
\* category and the Area_f values sum to 1
C16_AreaAccounting ==
    (Reported /\ SomeCount(returned[1])) =>
        LET df == returned[1] IN
        /\ 2 * (SumPct(df) - 10000) <= Len(df)
        /\ 2 * (10000 - SumPct(df)) <= Len(df)
        /\ \A k \in 1..Len(df) : df[k].Area_f[2] = df[1].Area_f[2]
        /\ SumNum(df) = df[1].Area_f[2]

\* a report whose rounded percentages do not add up to 100.00
C16_Witness ==
    /\ Reported
    /\ SomeCount(returned[1])
    /\ Len(returned[1]) = 3
    /\ SumPct(returned[1]) # 10000

-----------------------------------------------------------------------------
\* Zonal statistics: the categorical raster samples a second raster

\* get_grid_data: the cells that are neither masked nor nan, in row order
get_grid_data(self) ==
    SelectSeq(Visible(self.grid[1]), LAMBDA v : v # NaN)

\* grid_aoi = 1 * (self.grid == n_id), as numpy.ma.filled(grid_aoi, 0)
\* reads it in apply_aoi_mask
zonal_aoi(g, n_id) ==
    [i \in 1..NCells(g) |-> IF ~g.mask[i] /\ g.data[i] = n_id THEN 1 ELSE 0]

\* variant: the sampled raster keeps the grid of the last category
zonal_step_no_restore(raster_sample, g, n_id) ==
    apply_aoi_mask(raster_sample, zonal_aoi(g, n_id), TRUE)

\* one pass of the loop: apply_aoi_mask(inplace=True), the statistics, and
\* raster_sample.grid = grid_raster, the array the raster had on entry
zonal_step(raster_sample, g, n_id) ==
    [apply_aoi_mask(raster_sample, zonal_aoi(g, n_id), TRUE) EXCEPT
        !.grid = raster_sample.grid]

RECURSIVE zonal_loop(_, _, _, _)
zonal_loop(raster_sample, g, ids, i) ==
    IF i > Len(ids) THEN raster_sample
    ELSE zonal_loop(zonal_step(raster_sample, g, ids[i]), g, ids, i + 1)

\* df_aux: the rows clear_table leaves; the table itself is set back
zonal_ids(self, lst_ids) == clear_table(self, lst_ids).table[1]

\* self.table.copy() on a raster without table raises AttributeError; with
\* no category left the loop does not run and df_stats is unbound
zonal_error(self, lst_ids) ==
    IF self.table = <<>> THEN "AttributeError"
    ELSE IF zonal_ids(self, lst_ids) = <<>> THEN "UnboundLocalError"
    ELSE ""

\* the sampled raster after the call
zonal_sample(self, raster_sample, lst_ids) ==
    IF self.table = <<>> THEN raster_sample
    ELSE zonal_loop(raster_sample, self.grid[1], zonal_ids(self, lst_ids), 1)

\* the data each category's statistics are computed from
zonal_data(self, raster_sample, lst_ids) ==
    LET ids == zonal_ids(self, lst_ids) IN
    [k \in 1..Len(ids) |->
        [Id |-> ids[k],
         data |-> get_grid_data(
             apply_aoi_mask(raster_sample, zonal_aoi(self.grid[1], ids[k]), TRUE))]]

\* categorical grids with zero to three categories, and their tables
ZonalGrids ==
    { Plain(1, 3, d) : d \in { <<0, 0, 0>>, <<1, 1, 1>>, <<1, 1, 2>>,
                               <<0, 1, 2>>, <<1, 2, 3>> } }

ZonalTables == { <<1, 2, 3>>, <<2, 1>>, <<20>> }

\* the sampled rasters: both dtypes, every nodata value and grid over Vals
ZonalSamples ==
    { set_grid(set_asc_metadata(NewRaster(cls), FullMeta(<<1, 3>>, nd)),
               Plain(1, 3, d)) :
        cls \in {"Raster_float32", "Raster_uint8"}, nd \in Vals,
        d \in [1..3 -> Vals] }

InitZonal ==
    /\ raster \in { set_table(QualiSample(g), t) :
                      g \in ZonalGrids, t \in ZonalTables }
    /\ sample \in { <<s>> : s \in ZonalSamples }
    /\ err = ""
    /\ exported = <<>>
    /\ aoi_seq = AoiStart
    /\ offered = None
    /\ returned = <<>>
    /\ coll = <<>>
    /\ last_call = NoCall

\* raster_sample.apply_aoi_mask(grid_aoi) by the caller, before sampling
SampleApplyAoi ==
    /\ \E grid_aoi \in { <<1, 1, 0>>, <<0, 1, 1>> } :
         sample' = <<apply_aoi_mask(sample[1], grid_aoi, FALSE)>>
    /\ err' = ""
    /\ returned' = <<>>
    /\ UNCHANGED <<raster, exported, aoi_seq, offered, coll, last_call>>

SampleReleaseAoi ==
    /\ sample' = IF release_raises(sample[1]) THEN sample
                 ELSE <<release_aoi_mask(sample[1])>>
    /\ err' = IF release_raises(sample[1]) THEN "AttributeError" ELSE ""
    /\ returned' = <<>>
    /\ UNCHANGED <<raster, exported, aoi_seq, offered, coll, last_call>>

\* get_zonal_stats(raster_sample), merge and skip_count left at False
GetZonalStats ==
    /\ \E lst_ids \in np_unique(raster.grid[1]) :
         /\ sample' = <<zonal_sample(raster, sample[1], lst_ids)>>
         /\ err' = zonal_error(raster, lst_ids)
         /\ returned' = IF zonal_error(raster, lst_ids) # "" THEN <<>>
                        ELSE <<zonal_data(raster, sample[1], lst_ids)>>
    /\ UNCHANGED <<raster, exported, aoi_seq, offered, coll, last_call>>

NextZonal ==
    \/ SampleApplyAoi
    \/ SampleReleaseAoi
    \/ GetZonalStats

SpecZonal == InitZonal /\ [][NextZonal]_vars

\* C17: get_zonal_stats leaves the grid of the sampled raster as it was
\* before the call, values and absent cells, for every number of categories
\* and with or without an AOI applied to the sampled raster
C17_SampleGridKept ==
    \A lst_ids \in np_unique(raster.grid[1]) :
        LET after == zonal_sample(raster, sample[1], lst_ids) IN
        /\ after.grid = sample[1].grid
        /\ SameGrid(after.grid, sample[1].grid)

\* statistics of two categories or more were returned for a sampled raster
\* that had an AOI applied with backup, and the mask of the first category
\* hid cells that the raster shows
C17_Witness ==
    /\ returned # <<>>
    /\ err = ""
    /\ Len(returned[1]) >= 2
    /\ sample[1].isaoi /\ sample[1].backup_grid # <<>>
    /\ Len(returned[1][1].data) < Len(get_grid_data(sample[1]))

\* C28: a sample raster stays releasable after zonal statistics: after
\* get_zonal_stats(raster_sample) on a sample raster that had no AOI applied,
\* the isaoi flag of raster_sample is False and its backup_grid is None, so a
\* following raster_sample.release_aoi_mask() raises no error and leaves the
\* grid unchanged.
C28_SampleReleasable ==
    (~sample[1].isaoi /\ sample[1].backup_grid = <<>>) =>
        \A lst_ids \in np_unique(raster.grid[1]) :
            LET after == zonal_sample(raster, sample[1], lst_ids) IN
            /\ ~after.isaoi
            /\ after.backup_grid = <<>>
            /\ ~release_raises(after)
            /\ release_aoi_mask(after).grid = sample[1].grid

-----------------------------------------------------------------------------
\* Collections: Collection with its catalog, RasterCollection, RasterSeries
\* and QualiRasterSeries.  A member is the raster with its name and its file
\* paths; the collection dict maps every name to <<>> (no such key) or to
\* <<member>>; the catalog is the sequence of its rows

CollKinds == {"RasterCollection", "RasterSeries", "QualiRasterSeries"}

\* the member names, in the order sort_values(by="Name") puts them
NameOrder == <<"a", "b">>

CollNames == { NameOrder[i] : i \in 1..Len(NameOrder) }

MemberClass(kind) ==
    IF kind = "QualiRasterSeries" THEN "QualiRaster" ELSE "Raster_float32"

NewMember(cls, name) ==
    [name |-> name, path_ascfile |-> <<>>, path_prjfile |-> <<>>,
     obj |-> NewRaster(cls)]

\* the fields of get_metadata that depend on the raster's state; Variable,
\* VarAlias, Units, Date, Source and Description, and the Path_CSV that a
\* QualiRaster adds, are left out
get_metadata(m) ==
    [Name |-> m.name,
     cellsize |-> m.obj.cellsize,
     ncols |-> m.obj.asc_metadata.ncols,
     nrows |-> m.obj.asc_metadata.nrows,
     xllcorner |-> m.obj.asc_metadata.xllcorner,
     yllcorner |-> m.obj.asc_metadata.yllcorner,
     NODATA_value |-> m.obj.nodatavalue,
     Prj |-> m.obj.prj,
     Path_ASC |-> m.path_ascfile,
     Path_PRJ |-> m.path_prjfile]

NewCollection(kind) ==
    [kind |-> kind, catalog |-> <<>>,
     collection |-> [n \in CollNames |-> <<>>], table |-> <<>>]

Keys(c) == { n \in CollNames : c.collection[n] # <<>> }

\* variant: the catalog is left as the concatenation made it
Collection_update_plain(catalog) == catalog

\* update(details=False): drop_duplicates(subset="Name", keep="last") and
\* sort_values(by="Name")
Collection_update(catalog) ==
    LET names == SelectSeq(NameOrder,
                   LAMBDA n : \E i \in 1..Len(catalog) : catalog[i].Name = n)
    IN  [k \in 1..Len(names) |->
            catalog[CHOOSE i \in 1..Len(catalog) :
                      /\ catalog[i].Name = names[k]
                      /\ \A j \in (i + 1)..Len(catalog) :
                            catalog[j].Name # names[k]]]

\* update(details=True): one row per member from its get_metadata()
Collection_update_details(c) ==
    LET keys == SelectSeq(NameOrder, LAMBDA n : n \in Keys(c)) IN
    [c EXCEPT !.catalog = Collection_update(
        [k \in 1..Len(keys) |-> get_metadata(c.collection[keys[k]][1])])]

Collection_append(c, new_object) ==
    [c EXCEPT !.collection[new_object.name] = <<new_object>>,
              !.catalog = Collection_update(
                              Append(c.catalog, get_metadata(new_object)))]

\* del self.collection[name] raises KeyError for an unknown name
remove_raises(c, name) == name \notin Keys(c)

Collection_remove(c, name) ==
    [c EXCEPT !.collection[name] = <<>>,
              !.catalog = SelectSeq(c.catalog, LAMBDA row : row.Name # name)]

\* RasterCollection.issamegrid reads the catalog
issamegrid(c) ==
    /\ Cardinality({ c.catalog[i].ncols : i \in 1..Len(c.catalog) }) = 1
    /\ Cardinality({ c.catalog[i].nrows : i \in 1..Len(c.catalog) }) = 1

\* drop_duplicates(subset="Id", keep="last") on the series table
DropDuplicatesLast(q) ==
    LET keep == { i \in 1..Len(q) : \A j \in (i + 1)..Len(q) : q[j] # q[i] } IN
    [k \in 1..Cardinality(keep) |->
        q[CHOOSE i \in keep : Cardinality({ j \in keep : j < i }) = k - 1]]

RECURSIVE ConcatTables(_, _, _)
ConcatTables(collection, rows, upto) ==
    IF upto = 0 THEN <<>>
    ELSE ConcatTables(collection, rows, upto - 1)
         \o collection[rows[upto].Name][1].obj.table[1]

\* QualiRasterSeries.update_table(clear=True), the catalog not being empty:
\* every member's table is cleared, in catalog order, and the tables are
\* concatenated; a member without table raises (clear_table on its grid, or
\* table.copy() without grid) after the members before it were cleared
update_table_stop(c) ==
    LET bad == { i \in 1..Len(c.catalog) :
                   c.collection[c.catalog[i].Name][1].obj.table = <<>> }
    IN  IF bad = {} THEN Len(c.catalog) + 1
        ELSE CHOOSE i \in bad : \A j \in bad : i <= j

update_table_error(c) ==
    IF update_table_stop(c) > Len(c.catalog) THEN ""
    ELSE IF c.collection[c.catalog[update_table_stop(c)].Name][1].obj.grid = <<>>
    THEN "AttributeError" ELSE "TypeError"

update_table(c) ==
    LET stop == update_table_stop(c)
        reached == { c.catalog[i].Name : i \in 1..(stop - 1) }
        cand(n) ==
            IF n \notin reached THEN { c.collection[n] }
            ELSE LET m == c.collection[n][1] IN
                 IF m.obj.grid = <<>> THEN { <<m>> }
                 ELSE { <<[m EXCEPT !.obj = clear_table(m.obj, lst_ids)]>> :
                          lst_ids \in np_unique(m.obj.grid[1]) }
        all == UNION { cand(n) : n \in CollNames }
    IN  { [c EXCEPT !.collection = f,
                    !.table = IF stop = 1 THEN c.table
                              ELSE IF stop > Len(c.catalog)
                              THEN <<DropDuplicatesLast(
                                       ConcatTables(f, c.catalog, stop - 1))>>
                              ELSE <<ConcatTables(f, c.catalog, stop - 1)>>] :
          f \in { f \in [CollNames -> all] : \A n \in CollNames : f[n] \in cand(n) } }

\* the .asc files on disk, by path: two good files of different shape and
\* one that does not parse
AscPaths == {"f1.asc", "f2.asc", "f3.asc"}

AscFile(path, cls) ==
    IF path = "f1.asc" THEN GoodFile(cls)
    ELSE IF path = "f2.asc" THEN TwoRowFile(cls)
    ELSE SubSeq(GoodFile(cls), 1, 5)

PrjPaths == { <<>>, <<"f.prj">> }

member_load_prj_file(m, file) ==
    [m EXCEPT !.path_prjfile = <<file>>, !.obj.prj = <<"WKT">>]

\* what load_asc_raster and load_asc_metadata parse out of each file
CollParsed ==
    [cls \in Classes |-> [path \in AscPaths |->
        read_asc_raster(AscFile(path, cls), DtypeOf(cls))]]

CollMetaParsed ==
    [cls \in Classes |-> [path \in AscPaths |->
        read_asc_metadata(AscFile(path, cls))]]

member_load_asc_raster(m, file) ==
    [m EXCEPT !.path_ascfile = <<file>>,
              !.obj = load_asc_raster(m.obj, CollParsed[m.obj.cls][file])]

member_load_asc_metadata(m, file) ==
    [m EXCEPT !.obj = load_asc_metadata(m.obj, CollMetaParsed[m.obj.cls][file])]

load_error(file, cls) == CollParsed[cls][file].error

\* RasterCollection.load: load_prj_file, load_asc_raster or
\* load_asc_metadata, then append
RasterCollection_load(c, name, asc_file, prj_file, skip_grid) ==
    LET m0 == NewMember(MemberClass(c.kind), name)
        m1 == IF prj_file = <<>> THEN m0
              ELSE member_load_prj_file(m0, prj_file[1])
        m2 == IF skip_grid THEN member_load_asc_metadata(m1, asc_file)
              ELSE member_load_asc_raster(m1, asc_file)
    IN  Collection_append(c, m2)

\* RasterSeries.load: load_asc_raster, append, and only then load_prj_file
\* on the raster that is by now a member
RasterSeries_load(c, name, asc_file, prj_file) ==
    LET m1 == member_load_asc_raster(NewMember(MemberClass(c.kind), name),
                                     asc_file)
        c1 == Collection_append(c, m1)
    IN  IF prj_file = <<>> THEN c1
        ELSE [c1 EXCEPT !.collection[name] =
                  <<member_load_prj_file(m1, prj_file[1])>>]

\* the QualiRaster that QualiRasterSeries.load builds before it appends it
QualiMember(name, asc_file, prj_file, table_file) ==
    LET m1 == member_load_asc_raster(NewMember("QualiRaster", name), asc_file)
        m2 == IF prj_file = <<>> THEN m1
              ELSE member_load_prj_file(m1, prj_file[1])
    IN  IF table_file = <<>> THEN m2
        ELSE [m2 EXCEPT !.obj = load_table(m2.obj, table_file[1])]

\* rasters made outside the collection and handed to append
MemberInputsOf ==
    [kind \in CollKinds |->
        IF kind = "QualiRasterSeries"
        THEN { QualiMember(n, "f2.asc", <<"f.prj">>,
                   <<[columns |-> {"Id", "Name", "Alias"}, ids |-> <<2, 1>>]>>) :
                 n \in CollNames }
        ELSE { member_load_asc_raster(NewMember(MemberClass(kind), n), "f2.asc") :
                 n \in CollNames }]

MemberInputs(kind) == MemberInputsOf[kind]

CollTableFiles ==
    { <<>>, <<[columns |-> {"Id", "Name", "Alias"}, ids |-> <<1, 3>>]>> }

InitColl ==
    /\ coll \in { NewCollection(kind) : kind \in CollKinds }
    /\ raster = NewRaster("Raster_float32")
    /\ err = ""
    /\ exported = <<>>
    /\ aoi_seq = AoiStart
    /\ offered = None
    /\ returned = <<>>
    /\ sample = <<>>
    /\ last_call = NoCall

CollFrame == UNCHANGED <<raster, exported, aoi_seq, offered, sample>>

\* append(new_object); QualiRasterSeries.append goes on with update_table
CollAppend ==
    /\ \E new_object \in MemberInputs(coll.kind) :
         LET c1 == Collection_append(coll, new_object) IN
         /\ IF coll.kind = "QualiRasterSeries"
            THEN /\ coll' \in update_table(c1)
                 /\ err' = update_table_error(c1)
            ELSE /\ coll' = c1
                 /\ err' = ""
         /\ last_call' = [op |-> "append",
                          had |-> new_object.name \in Keys(coll)]
    /\ returned' = <<>>
    /\ CollFrame

CollRemove ==
    /\ \E name \in CollNames :
         /\ coll' = IF remove_raises(coll, name) THEN coll
                    ELSE Collection_remove(coll, name)
         /\ err' = IF remove_raises(coll, name) THEN "KeyError" ELSE ""
         /\ last_call' = [op |-> "remove",
                          had |-> name \in Keys(coll)]
    /\ returned' = <<>>
    /\ CollFrame

\* load of the collection's class; a file that does not parse raises before
\* the append
CollLoad ==
    /\ \E name \in CollNames, asc_file \in {"f1.asc", "f3.asc"},
          prj_file \in PrjPaths, skip_grid \in BOOLEAN,
          table_file \in CollTableFiles :
         LET e == load_error(asc_file, MemberClass(coll.kind)) IN
         /\ (coll.kind # "RasterCollection") => ~skip_grid
         /\ (coll.kind # "RasterSeries") => prj_file # <<>>
         /\ (coll.kind # "QualiRasterSeries") => table_file = <<>>
         /\ IF e # "" THEN coll' = coll /\ err' = e
            ELSE IF coll.kind = "RasterCollection"
            THEN /\ coll' = RasterCollection_load(coll, name, asc_file,
                                                  prj_file, skip_grid)
                 /\ err' = ""
            ELSE IF coll.kind = "RasterSeries"
            THEN /\ coll' = RasterSeries_load(coll, name, asc_file, prj_file)
                 /\ err' = ""
            ELSE LET c1 == Collection_append(coll,
                             QualiMember(name, asc_file, prj_file, table_file))
                 IN  /\ coll' \in update_table(c1)
                     /\ err' = update_table_error(c1)
         /\ last_call' = [op |-> IF e # "" THEN "" ELSE "load",
                          had |-> name \in Keys(coll)]
    /\ returned' = <<>>
    /\ CollFrame

\* self.collection[name].rebase_grid(base_raster, inplace=True)
MemberRebase ==
    /\ \E name \in Keys(coll), base \in { RefRaster(<<1, 1>>, 0, <<"WKT">>) } :
         LET m == coll.collection[name][1]
             e == rebase_grid_error(m.obj, base, rebase_method(m.obj, "nearest"))
         IN  /\ err' = e
             /\ IF e # "" THEN coll' = coll
                ELSE \E zi \in grd_zi(m.obj, base) :
                       coll' = [coll EXCEPT !.collection[name] =
                           <<[m EXCEPT !.obj = rebase_grid_inplace(m.obj, base, zi)]>>]
             /\ last_call' = [op |-> "rebase_grid", had |-> TRUE]
    /\ returned' = <<>>
    /\ CollFrame

CollUpdateDetails ==
    /\ coll' = Collection_update_details(coll)
    /\ err' = ""
    /\ last_call' = [op |-> "update", had |-> FALSE]
    /\ returned' = <<>>
    /\ CollFrame

IsSameGrid ==
    /\ returned' = <<issamegrid(coll)>>
    /\ err' = ""
    /\ last_call' = [op |-> "issamegrid", had |-> FALSE]
    /\ UNCHANGED coll
    /\ CollFrame

NextColl ==
    \/ CollAppend
    \/ CollRemove
    \/ CollLoad
    \/ MemberRebase
    \/ CollUpdateDetails
    \/ IsSameGrid

SpecColl == InitColl /\ [][NextColl]_vars

NameRank(n) == CHOOSE i \in 1..Len(NameOrder) : NameOrder[i] = n

RowsNamed(catalog, name) ==
    Cardinality({ i \in 1..Len(catalog) : catalog[i].Name = name })

\* C18: the catalog has one row per member, its Names are the member keys
\* and it is sorted by Name; an append under an existing name replaces the
\* member and leaves one row for the name; remove(name) deletes that
\* member and that row and nothing else
C18_CatalogInvariant ==
    /\ Len(coll.catalog) = Cardinality(Keys(coll))
    /\ { coll.catalog[i].Name : i \in 1..Len(coll.catalog) } = Keys(coll)
    /\ \A i \in 1..Len(coll.catalog) : \A j \in (i + 1)..Len(coll.catalog) :
          NameRank(coll.catalog[i].Name) < NameRank(coll.catalog[j].Name)
    /\ \A new_object \in MemberInputs(coll.kind) :
          LET c1 == Collection_append(coll, new_object) IN
          /\ c1.collection[new_object.name] = <<new_object>>
          /\ RowsNamed(c1.catalog, new_object.name) = 1
          /\ \A n \in CollNames \ {new_object.name} :
                /\ c1.collection[n] = coll.collection[n]
                /\ RowsNamed(c1.catalog, n) = RowsNamed(coll.catalog, n)
    /\ \A name \in Keys(coll) :
          LET c1 == Collection_remove(coll, name) IN
          /\ Keys(c1) = Keys(coll) \ {name}
          /\ RowsNamed(c1.catalog, name) = 0
          /\ Len(c1.catalog) = Len(coll.catalog) - 1
          /\ \A n \in CollNames \ {name} :
                /\ c1.collection[n] = coll.collection[n]
                /\ RowsNamed(c1.catalog, n) = RowsNamed(coll.catalog, n)

\* an append under a name that was already a key has returned, in a
\* collection of two members
C18_Witness ==
    /\ last_call.op = "append" /\ last_call.had
    /\ err = ""
    /\ Cardinality(Keys(coll)) = 2

\* C19: after every append and every load that appends, each catalog row is
\* the present get_metadata() of the member of that name
C19_RowsRederived ==
    (last_call.op \in {"append", "load"} /\ err = "") =>
        \A i \in 1..Len(coll.catalog) :
            /\ coll.catalog[i].Name \in Keys(coll)
            /\ coll.catalog[i]
                 = get_metadata(coll.collection[coll.catalog[i].Name][1])

\* the shape in the header of a member, as get_metadata reports it
MemberShape(c, n) ==
    <<c.collection[n][1].obj.asc_metadata.ncols,
      c.collection[n][1].obj.asc_metadata.nrows>>

\* C20: issamegrid() returns True exactly when all members have the same
\* (ncols, nrows) at the time of the call
C20_SameGridIff ==
    (last_call.op = "issamegrid") =>
        (returned[1] <=>
            \A n1 \in Keys(coll), n2 \in Keys(coll) :
                MemberShape(coll, n1) = MemberShape(coll, n2))

-----------------------------------------------------------------------------
\* NODATA masking on its own: one raster, the calls that give it a grid and
\* a nodata value, and mask_nodata / insert_nodata called directly

MaskFrame == UNCHANGED <<offered, returned, sample, coll>>

MaskSetGrid ==
    /\ \E g \in GridInputs(raster.dtype) : SetGridCall(g)
    /\ last_call' = NoCall
    /\ MaskFrame

\* a header that carries only the nodata value
MaskSetAscMetadata ==
    /\ \E nd \in Vals : SetAscMetadataCall([NODATA_value |-> nd])
    /\ last_call' = NoCall
    /\ MaskFrame

\* self.grid.dtype raises AttributeError while the grid is None
mask_nodata_raises(self) == self.nodatavalue # None /\ self.grid = <<>>

MaskNodata ==
    /\ raster' = IF raster.grid = <<>> THEN raster ELSE mask_nodata(raster)
    /\ err' = IF mask_nodata_raises(raster) THEN "AttributeError" ELSE ""
    /\ last_call' = [op |-> "mask_nodata",
                     had |-> raster.grid # <<>> /\ mask_nodata(raster) # raster]
    /\ exported' = <<>>
    /\ aoi_seq' = AoiStart
    /\ MaskFrame

InsertNodata ==
    /\ raster.grid # <<>>
    /\ raster' = insert_nodata(raster)
    /\ err' = ""
    /\ last_call' = NoCall
    /\ exported' = <<>>
    /\ aoi_seq' = AoiStart
    /\ MaskFrame

NextMask ==
    \/ MaskSetGrid
    \/ MaskSetAscMetadata
    \/ MaskNodata
    \/ InsertNodata

SpecMask == Init /\ [][NextMask]_vars

\* C26: NODATA masking is idempotent: calling mask_nodata() twice in a row
\* leaves the grid exactly as it was after the first call, for floating and
\* integer grids and for every nodata value (an unset one included).
C26_MaskIdempotent ==
    /\ raster.grid # <<>> =>
          mask_nodata(mask_nodata(raster)).grid = mask_nodata(raster).grid
    /\ (last_call.op = "mask_nodata" /\ raster.grid # <<>>) =>
          mask_nodata(raster).grid = raster.grid

\* a first call has just masked cells of an integer grid
C26_Witness ==
    /\ last_call = [op |-> "mask_nodata", had |-> TRUE]
    /\ IsIntKind(raster)
    /\ \E i \in 1..NCells(raster.grid[1]) : raster.grid[1].mask[i]

-----------------------------------------------------------------------------
\* Areas of interest derived from a raster: Raster.get_aoi,
\* QualiRaster.get_aoi and Zones.get_aoi

\* AOI(): a QualiRaster with the two-row table of AOI.get_table
NewAOI == set_table(NewRaster("QualiRaster"), <<1, 2>>)

\* numpy comparisons with NaN are False
np_ge(a, b) == a # NaN /\ b # NaN /\ a >= b
np_le(a, b) == a # NaN /\ b # NaN /\ a <= b

\* 1 * (grid >= lo) * (grid <= hi): computed on the data, the mask of a
\* masked array carried over
aoi_between(g, lo, hi) ==
    [g EXCEPT !.data = [i \in 1..NCells(g) |->
        IF np_ge(g.data[i], lo) /\ np_le(g.data[i], hi) THEN 1 ELSE 0]]

\* the AOI map that Raster.get_aoi returns
get_aoi(self, by_value_lo, by_value_hi) ==
    [set_grid(set_asc_metadata(NewAOI, self.asc_metadata),
              aoi_between(insert_nodata(self).grid[1], by_value_lo, by_value_hi))
        EXCEPT !.prj = self.prj]

\* QualiRaster.get_aoi and Zones.get_aoi: 1 * (grid == by_value_id)
Quali_get_aoi(self, by_value_id) == get_aoi(self, by_value_id, by_value_id)

\* insert_nodata raises AttributeError on a grid that is None; without a
\* nodata value the comparison of None with a number raises TypeError
get_aoi_error(self) ==
    IF self.grid # <<>> THEN ""
    ELSE IF self.nodatavalue # None THEN "AttributeError" ELSE "TypeError"

\* the raster itself after the call: insert_nodata, then mask_nodata
get_aoi_self(self) ==
    IF self.grid = <<>> THEN self ELSE mask_nodata(insert_nodata(self))

AoiBounds == { b \in Vals \X Vals : b[1] <= b[2] }

AoiFrame == UNCHANGED <<offered, sample, coll>>

AoiSetGrid ==
    /\ \E g \in GridInputs(raster.dtype) : SetGridCall(g)
    /\ returned' = <<>>
    /\ last_call' = NoCall
    /\ AoiFrame

AoiSetAscMetadata ==
    /\ \E nd \in Vals : SetAscMetadataCall([NODATA_value |-> nd])
    /\ returned' = <<>>
    /\ last_call' = NoCall
    /\ AoiFrame

RasterGetAoi ==
    /\ raster.cls # "QualiRaster"
    /\ \E b \in AoiBounds :
         returned' = IF raster.grid = <<>> THEN <<>>
                     ELSE <<get_aoi(raster, b[1], b[2])>>
    /\ raster' = get_aoi_self(raster)
    /\ err' = get_aoi_error(raster)
    /\ last_call' = [op |-> "get_aoi", had |-> raster.grid # <<>>]
    /\ exported' = <<>>
    /\ aoi_seq' = AoiStart
    /\ AoiFrame

QualiGetAoi ==
    /\ raster.cls = "QualiRaster"
    /\ \E by_value_id \in Vals :
         returned' = IF raster.grid = <<>> THEN <<>>
                     ELSE <<Quali_get_aoi(raster, by_value_id)>>
    /\ raster' = get_aoi_self(raster)
    /\ err' = get_aoi_error(raster)
    /\ last_call' = [op |-> "get_aoi", had |-> raster.grid # <<>>]
    /\ exported' = <<>>
    /\ aoi_seq' = AoiStart
    /\ AoiFrame

NextAoi ==
    \/ AoiSetGrid
    \/ AoiSetAscMetadata
    \/ RasterGetAoi
    \/ QualiGetAoi

SpecAoi == Init /\ [][NextAoi]_vars

\* the cells that the AOI map a marks 1 are cells of g that are not absent
\* and hold a value from lo to hi
MarkedInside(a, g, lo, hi) ==
    \A i \in 1..NCells(g) :
        Visible(a)[i] = 1 =>
            /\ Visible(g)[i] # NaN
            /\ lo <= Visible(g)[i] /\ Visible(g)[i] <= hi

\* C29: absent cells are never inside an AOI: in the AOI grid returned by
\* Raster.get_aoi(by_value_lo, by_value_hi), QualiRaster.get_aoi(by_value_id)
\* and Zones.get_aoi(zone_id), a cell that is absent in the source raster is
\* never marked 1, for every choice of bounds or id and every nodata value;
\* only cells with a non-absent value within the bounds are marked 1.
C29_AbsentNeverInAoi ==
    raster.grid # <<>> =>
        /\ raster.cls # "QualiRaster" =>
              \A b \in AoiBounds :
                  MarkedInside(get_aoi(raster, b[1], b[2]).grid[1],
                               raster.grid[1], b[1], b[2])
        /\ raster.cls = "QualiRaster" =>
              \A by_value_id \in Vals :
                  MarkedInside(Quali_get_aoi(raster, by_value_id).grid[1],
                               raster.grid[1], by_value_id, by_value_id)

-----------------------------------------------------------------------------
\* Reduction of a RasterCollection: reducer and its wrappers mean, sum, min
\* and max.  A collection holds at most two members, so a mean is integral
\* or k + 1/2.

ReduceFns == {"mean", "sum", "min", "max"}

SeqMin(q) == CHOOSE v \in { q[k] : k \in 1..Len(q) } : \A k \in 1..Len(q) : v <= q[k]
SeqMax(q) == CHOOSE v \in { q[k] : k \in 1..Len(q) } : \A k \in 1..Len(q) : v >= q[k]

\* reducer_function(_vct) of a vector that is not empty; NaN propagates
np_apply(fn, vct) ==
    IF \E k \in 1..Len(vct) : vct[k] = NaN THEN NaN
    ELSE IF fn = "sum" THEN SumSeq(vct)
    ELSE IF fn = "min" THEN SeqMin(vct)
    ELSE IF fn = "max" THEN SeqMax(vct)
    ELSE IF SumSeq(vct) % Len(vct) = 0 THEN SumSeq(vct) \div Len(vct)
    ELSE Half(SumSeq(vct) \div Len(vct))

\* one cell of vct_stats: with skip_nan the NaN are removed and a void
\* vector is replaced by numpy.nan
reduce_cell(fn, vct, skip_nan) ==
    LET v == IF skip_nan THEN SelectSeq(vct, LAMBDA x : x # NaN) ELSE vct
    IN  IF v = <<>> THEN NaN ELSE np_apply(fn, v)

\* the member objects in catalog order
CatalogObj(c, k) == c.collection[c.catalog[k].Name][1].obj

\* grd_merged[i] = _vct_flat raises ValueError for a member whose flat grid
\* has another length than the first member's
reducer_error(c) ==
    IF ~issamegrid(c) THEN ""
    ELSE IF \E k \in 1..Len(c.catalog) :
               NCells(CatalogObj(c, k).grid[1]) # NCells(CatalogObj(c, 1).grid[1])
         THEN "ValueError"
    ELSE ""

\* vct_stats: grd_merged is a plain float array, so the row of a member is
\* the data of its grid, the data under the mask of a masked grid included
reducer_stats(c, fn, skip_nan) ==
    [i \in 1..NCells(CatalogObj(c, 1).grid[1]) |->
        reduce_cell(fn, [k \in 1..Len(c.catalog) |->
                            CatalogObj(c, k).grid[1].data[i]], skip_nan)]

\* the raster returned (<<>> for None): a deep copy of the first member
\* that is given the reshaped statistics by set_grid
reducer(c, fn, skip_nan) ==
    IF ~issamegrid(c) THEN <<>>
    ELSE LET first == CatalogObj(c, 1) IN
         <<set_grid(first, Plain(first.grid[1].nrows, first.grid[1].ncols,
                                 reducer_stats(c, fn, skip_nan)))>>

\* member grids: the grids of Shapes, one grid of two rows, and the
\* grids of the specification's example
ReduceGrids(dtype) ==
    { g \in GridInputs(dtype) : \A i \in 1..NCells(g) : g.data[i] # Inf }
    \cup { Plain(2, 1, <<MaxVal, MaxVal>>) }

ReduceRasters(cls) ==
    { set_grid(NewRaster(cls), g) : g \in ReduceGrids(DtypeOf(cls)) }
    \cup { set_grid(set_asc_metadata(NewRaster(cls),
                                     FullMeta(<<g.nrows, g.ncols>>, nd)), g) :
             g \in ReduceGrids(DtypeOf(cls)), nd \in Vals }
    \cup { set_grid(set_asc_metadata(NewRaster(cls), FullMeta(<<2, 2>>, 0)),
                    Plain(2, 2, d)) : d \in { <<1, 2, 3, 4>>, <<5, 6, 7, 0>> } }

ReduceClasses == {"Raster_float32", "Raster_uint8"}

ReduceMembers ==
    [cls \in ReduceClasses |->
        { [name |-> n, path_ascfile |-> <<>>, path_prjfile |-> <<>>, obj |-> r] :
            n \in CollNames, r \in ReduceRasters(cls) }]

InitReduce ==
    /\ coll = NewCollection("RasterCollection")
    /\ raster = NewRaster("Raster_float32")
    /\ err = ""
    /\ exported = <<>>
    /\ aoi_seq = AoiStart
    /\ offered = None
    /\ returned = <<>>
    /\ sample = <<>>
    /\ last_call = NoCall

\* append(new_object), of a raster of the class of the members present
ReduceAppend ==
    /\ \E cls \in ReduceClasses :
         /\ \A n \in Keys(coll) : coll.collection[n][1].obj.cls = cls
         /\ \E new_object \in ReduceMembers[cls] :
              /\ coll' = Collection_append(coll, new_object)
              /\ last_call' = [op |-> "append",
                               had |-> new_object.name \in Keys(coll)]
    /\ err' = ""
    /\ returned' = <<>>
    /\ CollFrame

ReduceRemove ==
    /\ \E name \in Keys(coll) :
         /\ coll' = Collection_remove(coll, name)
         /\ last_call' = [op |-> "remove", had |-> TRUE]
    /\ err' = ""
    /\ returned' = <<>>
    /\ CollFrame

\* mean, sum, min, max with either value of skip_nan
Reduce ==
    /\ \E fn \in ReduceFns, skip_nan \in BOOLEAN :
         /\ err' = reducer_error(coll)
         /\ returned' = IF reducer_error(coll) # "" THEN <<>>
                        ELSE reducer(coll, fn, skip_nan)
    /\ last_call' = [op |-> "reducer", had |-> issamegrid(coll)]
    /\ UNCHANGED coll
    /\ CollFrame

NextReduce ==
    \/ ReduceAppend
    \/ ReduceRemove
    \/ Reduce

SpecReduce == InitReduce /\ [][NextReduce]_vars

\* the grids of the members all have the shape of the first member's grid
SameShapes(c) ==
    \A k \in 1..Len(c.catalog) :
        /\ CatalogObj(c, k).grid[1].nrows = CatalogObj(c, 1).grid[1].nrows
        /\ CatalogObj(c, k).grid[1].ncols = CatalogObj(c, 1).grid[1].ncols

\* the values of the members at cell i that are not absent, in catalog order
PresentAt(c, i) ==
    SelectSeq([k \in 1..Len(c.catalog) |-> Visible(CatalogObj(c, k).grid[1])[i]],
              LAMBDA x : x # NaN)

\* C21: reducer (and mean, min, max, sum) on a collection of k >= 1 members
\* that all have grid shape (R,C) returns a new raster whose grid has shape
\* (R,C); on a collection whose members' grids do not all have the same
\* shape it returns None and raises no error.
C21_ReduceShape ==
    Keys(coll) # {} =>
        \A fn \in ReduceFns, skip_nan \in BOOLEAN :
            /\ reducer_error(coll) = ""
            /\ IF SameShapes(coll)
               THEN /\ reducer(coll, fn, skip_nan) # <<>>
                    /\ reducer(coll, fn, skip_nan)[1].grid[1].nrows
                         = CatalogObj(coll, 1).grid[1].nrows
                    /\ reducer(coll, fn, skip_nan)[1].grid[1].ncols
                         = CatalogObj(coll, 1).grid[1].ncols
               ELSE reducer(coll, fn, skip_nan) = <<>>

\* C22: with skip_nan=True the reduced value at each cell is the function
\* applied to the members' non-absent values at that cell only, and is
\* absent when every member is absent there, for floating (NaN) and integer
\* (masked) member grids alike.
C22_ReduceSkipNan ==
    (Keys(coll) # {} /\ SameShapes(coll) /\ issamegrid(coll)) =>
        \A fn \in ReduceFns :
            LET g == reducer(coll, fn, TRUE)[1].grid[1] IN
            \A i \in 1..NCells(g) :
                Visible(g)[i] =
                    IF PresentAt(coll, i) = <<>> THEN NaN
                    ELSE np_apply(fn, PresentAt(coll, i))

\* C30: with skip_nan=True a cell of the raster returned by reducer is
\* absent only if every member is absent at that cell; a computed value is
\* never turned absent or altered because it equals the first member's
\* nodata value or does not fit the first member's dtype.
C30_AbsentOnlyForLackOfData ==
    (Keys(coll) # {} /\ SameShapes(coll) /\ issamegrid(coll)) =>
        \A fn \in ReduceFns :
            LET g == reducer(coll, fn, TRUE)[1].grid[1]
                vct_stats == reducer_stats(coll, fn, TRUE)
            IN  \A i \in 1..NCells(g) :
                    /\ Visible(g)[i] = NaN => PresentAt(coll, i) = <<>>
                    /\ PresentAt(coll, i) # <<>> => Visible(g)[i] = vct_stats[i]

-----------------------------------------------------------------------------
\* A series of categorical rasters (QualiRasterSeries, LULCSeries): append
\* with the series table, remove, and the conversion matrix of two members.
\* The date of a member stands for its name.

SeriesGrids == ZonalGrids \cup { Plain(1, 3, <<1, 2, 2>>) }

\* categorical rasters with grid, header, projection and table
SeriesMembers ==
    { [name |-> n, path_ascfile |-> <<>>, path_prjfile |-> <<>>,
       obj |-> set_table(QualiSample(g), t)] :
        n \in CollNames, g \in SeriesGrids, t \in { <<1, 2, 3>>, <<2, 1>> } }

InitSeries ==
    /\ coll = NewCollection("QualiRasterSeries")
    /\ raster = NewRaster("QualiRaster")
    /\ err = ""
    /\ exported = <<>>
    /\ aoi_seq = AoiStart
    /\ offered = None
    /\ returned = <<>>
    /\ sample = <<>>
    /\ last_call = NoCall

\* QualiRasterSeries.append: Collection.append, then update_table()
SeriesAppend ==
    /\ \E new_object \in SeriesMembers :
         /\ coll' \in update_table(Collection_append(coll, new_object))
         /\ err' = update_table_error(Collection_append(coll, new_object))
         /\ last_call' = [op |-> "append",
                          had |-> new_object.name \in Keys(coll)]
    /\ returned' = <<>>
    /\ CollFrame

\* remove is Collection.remove: the series does not override it
SeriesRemove ==
    /\ \E name \in Keys(coll) :
         /\ coll' = Collection_remove(coll, name)
         /\ last_call' = [op |-> "remove", had |-> TRUE]
    /\ err' = ""
    /\ returned' = <<>>
    /\ CollFrame

\* a fraction is <<numerator, denominator>>; nan is <<NaN, 1>>
FracMul(p, q) ==
    IF p[1] = NaN \/ q[1] = NaN THEN <<NaN, 1>> ELSE <<p[1] * q[1], p[2] * q[2]>>

\* map_lulc of one pass: the grid of the end member under the header, table
\* and projection of the start member, masked to the cells that hold n_id
\* in the start member
conv_map(start, end, n_id) ==
    apply_aoi_mask(
        [set_table(set_asc_metadata(set_grid(NewRaster("QualiRaster"), end.grid[1]),
                                    start.asc_metadata),
                   start.table[1])
            EXCEPT !.prj = start.prj],
        zonal_aoi(start.grid[1], n_id), TRUE)

\* grd_conv[i] before the transposition: zeros for an all-masked map,
\* otherwise the Area_f column of map_lulc.get_areas()
conv_row(start, end, n_id) ==
    LET map_lulc == conv_map(start, end, n_id) IN
    IF \A i \in 1..NCells(map_lulc.grid[1]) : map_lulc.grid[1].mask[i]
    THEN [k \in 1..Len(start.table[1]) |-> <<0, 1>>]
    ELSE [k \in 1..Len(start.table[1]) |-> get_areas(map_lulc)[k].Area_f]

\* assigning the Area_f column of a member, or a row of grd_conv, raises
\* ValueError when the member's table has another length than the series'
conversion_error(c, date_start, date_end) ==
    IF \/ Len(c.collection[date_start][1].obj.table[1]) # Len(c.table[1])
       \/ Len(c.collection[date_end][1].obj.table[1]) # Len(c.table[1])
    THEN "ValueError" ELSE ""

get_conversion_matrix(c, date_start, date_end) ==
    LET start == c.collection[date_start][1].obj
        end == c.collection[date_end][1].obj
        n == Len(c.table[1])
        rows == [i \in 1..n |-> conv_row(start, end, c.table[1][i])]
        \* grd_conv = grd_conv.transpose()
        grd_conv == [i \in 1..n |-> [j \in 1..n |-> rows[j][i]]]
        Area_f_start == [k \in 1..n |-> get_areas(start)[k].Area_f]
    IN  [Conversion_Matrix |-> grd_conv,
         Expansion_Matrix |->
             [i \in 1..n |-> [j \in 1..n |->
                 IF i = j THEN <<0, 1>>
                 ELSE FracMul(Area_f_start[j], grd_conv[i][j])]],
         Retraction_Matrix |->
             [i \in 1..n |-> [j \in 1..n |->
                 IF i = j THEN <<0, 1>>
                 ELSE FracMul(Area_f_start[i], grd_conv[j][i])]]]

GetConversionMatrix ==
    /\ \E date_start \in Keys(coll), date_end \in Keys(coll) :
         /\ err' = conversion_error(coll, date_start, date_end)
         /\ returned' = IF conversion_error(coll, date_start, date_end) # "" THEN <<>>
                        ELSE <<get_conversion_matrix(coll, date_start, date_end)>>
    /\ last_call' = [op |-> "get_conversion_matrix", had |-> TRUE]
    /\ UNCHANGED coll
    /\ CollFrame

NextSeries ==
    \/ SeriesAppend
    \/ SeriesRemove
    \/ GetConversionMatrix

SpecSeries == InitSeries /\ [][NextSeries]_vars

\* number of cells that hold id a in grid g and, when b is given, id b in
\* grid h
BothCount(g, a, h, b) ==
    Cardinality({ i \in 1..NCells(g) : Visible(g)[i] = a /\ Visible(h)[i] = b })

FracEq(p, q) == p[1] # NaN /\ q[1] # NaN /\ p[1] * q[2] = q[1] * p[2]

\* C23: get_conversion_matrix(date_start, date_end) returns a
\* Conversion_Matrix whose cell [i,j] is the fraction of the cells holding
\* category i at date_start that hold category j at date_end (row =
\* starting category, column = ending category), and an Expansion_Matrix and
\* a Retraction_Matrix whose diagonals are all zero.
C23_ConversionMatrix ==
    \A date_start \in Keys(coll), date_end \in Keys(coll) :
        conversion_error(coll, date_start, date_end) = "" =>
            LET out == get_conversion_matrix(coll, date_start, date_end)
                ids == coll.table[1]
                gs == coll.collection[date_start][1].obj.grid[1]
                ge == coll.collection[date_end][1].obj.grid[1]
            IN  \A i \in 1..Len(ids) :
                    /\ out.Expansion_Matrix[i][i] = <<0, 1>>
                    /\ out.Retraction_Matrix[i][i] = <<0, 1>>
                    /\ \A j \in 1..Len(ids) :
                          BothCount(gs, ids[i], gs, ids[i]) > 0 =>
                              FracEq(out.Conversion_Matrix[i][j],
                                     <<BothCount(gs, ids[i], ge, ids[j]),
                                       BothCount(gs, ids[i], gs, ids[i])>>)

\* the ids of the tables of the current members
MemberIds(c) ==
    UNION { { c.collection[n][1].obj.table[1][k] :
                k \in 1..Len(c.collection[n][1].obj.table[1]) } : n \in Keys(c) }

\* C24: after any sequence of append and remove operations on a
\* QualiRasterSeries with at least one member, its table is the union of the
\* current members' tables with exactly one row per Id; it contains no
\* category that only a removed member had.
C24_SeriesTable ==
    Keys(coll) # {} =>
        /\ coll.table # <<>>
        /\ { coll.table[1][k] : k \in 1..Len(coll.table[1]) } = MemberIds(coll)
        /\ \A k, l \in 1..Len(coll.table[1]) :
              coll.table[1][k] = coll.table[1][l] => k = l

\* C27: appending a categorical raster to a QualiRasterSeries changes only
\* the series: the category table of the appended raster and of every
\* raster already in the series is the same after the append as before it,
\* so rows for ids that do not occur in a member's grid are not dropped.
C27_AppendKeepsMemberTables ==
    \A new_object \in SeriesMembers :
        \A c \in update_table(Collection_append(coll, new_object)) :
            /\ c.collection[new_object.name][1].obj.table = new_object.obj.table
            /\ \A n \in Keys(coll) \ {new_object.name} :
                  c.collection[n][1].obj.table = coll.collection[n][1].obj.table

====
